---------------------------- MODULE Spec2Model ----------------------------
(***************************************************************************)
(* A model of the adaptive pricing engine of pricelabs-auto                *)
(* (src/index.js: the bot, lines 1-624, and the PricingStrategy class,     *)
(* lines 626-1311).                                                        *)
(*                                                                         *)
(* Number representation.  A JavaScript number is an IEEE-754 double.      *)
(*   - Occupancy values, percentages, weights and thresholds are doubles,  *)
(*     modelled bit for bit: a record of sign, exponent and 53-bit         *)
(*     mantissa, with +, -, *, / and Math.round rounding as the hardware   *)
(*     does (round to nearest, ties to even).  0.3*0.6 + 0.5*0.3 + 0.7*0.1 *)
(*     is 0.39999999999999997 here as it is in the program.                *)
(*   - Prices are whole currency units and dates are day numbers: integers *)
(*     of the model, converted with FromInt where the code computes with   *)
(*     them.                                                               *)
(***************************************************************************)
EXTENDS Integers, Sequences, FiniteSets, TLC

VARIABLES
    config,          \* config.json as the process read it (index.js 13-15)
    today,           \* the calendar date the process runs on
    disk,            \* the ledger file config.logFile
    phase,           \* "constructed" until initialize has run, then "ready"
    propertyStats,   \* PricingStrategy.propertyStats (Map url -> stats)
    currentChanges,  \* PricingStrategy.currentChanges
    calls,           \* number of engine calls made so far (bounds the model)
    backup,          \* the file <logFile>.backup-<today> (index.js 559)
    applied,         \* observation: positive percentage applied per url/priceType
    bot,             \* runBot: its position, `changes`, hasUiOnlyChanges
    previous,        \* observation: the engine's memory when the process before this one ended
    retryState,      \* retry: attempt, lastError and what its caller has seen of it
    logs,            \* PricingStrategy.logs (index.js 639, 656-660)
    zone,            \* the local calendar date minus the UTC date (the process's TZ)
    clock,           \* the time of day (UTC) and the clock change of the last 7 days
    ret              \* observation: the last operation and what it returned

vars == <<config, today, disk, phase, propertyStats, currentChanges, calls, backup, applied,
          bot, previous, retryState, logs, zone, clock, ret>>

----------------------------------------------------------------------------
(* Bounds of the model *)

MaxStrLen == 4
MaxLedgerLen == 3
MaxCalls == 2

----------------------------------------------------------------------------
(* Let(v, F) is F(v) with v evaluated once (a JavaScript `const x = v`). *)

Let(v, F(_)) == CHOOSE y \in {F(x) : x \in {v}} : TRUE

----------------------------------------------------------------------------
(* Numbers: IEEE-754 binary64 arithmetic, round to nearest, ties to even.
   JavaScript's + - * / on numbers, parseFloat and Math.round.
   An operator that uses a value more than once binds it first, as in
   CHOOSE r \in {f(x) : x \in {v}} : TRUE, which is f(v) with v evaluated
   once. *)

\* Natural numbers of any size: the limbs in base 2^14, least significant
\* first, without leading zero limbs; zero is <<>>.
Pow2Table ==
    <<1, 2, 4, 8, 16, 32, 64, 128, 256, 512, 1024, 2048, 4096, 8192, 16384>>

\* 2^n for 0 <= n <= LimbBits
Pow2(n) == Pow2Table[n + 1]

LimbBits == Len(Pow2Table) - 1

Limb == Pow2(LimbBits)

LimbAt(x, i) == IF i <= Len(x) THEN x[i] ELSE 0

Zeros(n) == [i \in 1..n |-> 0]

\* x without its leading zero limbs
BigStrip(x) ==
    CHOOSE r \in
      {IF \A i \in 1..Len(v) : v[i] = 0 THEN <<>>
       ELSE SubSeq(v, 1, CHOOSE n \in 1..Len(v) :
                            v[n] # 0 /\ \A j \in (n + 1)..Len(v) : v[j] = 0)
         : v \in {x}} : TRUE

RECURSIVE BigCarryFrom(_, _, _)
BigCarryFrom(cols, i, carry) ==
    IF i > Len(cols) /\ carry = 0 THEN <<>>
    ELSE CHOOSE r \in
           {<<s % Limb>> \o BigCarryFrom(cols, i + 1, s \div Limb)
              : s \in {LimbAt(cols, i) + carry}} : TRUE

\* The number whose limb i is worth cols[i] (any integer, the total not
\* negative): the carries are propagated.
BigCarry(cols) ==
    CHOOSE r \in {BigStrip(BigCarryFrom(c, 1, 0)) : c \in {cols}} : TRUE

BigAdd(x, y) ==
    CHOOSE r \in
      {BigCarry([i \in 1..(IF Len(u) > Len(v) THEN Len(u) ELSE Len(v)) |->
                    LimbAt(u, i) + LimbAt(v, i)])
         : u \in {x}, v \in {y}} : TRUE

\* x - y for x >= y
BigSub(x, y) ==
    CHOOSE r \in
      {BigCarry([i \in 1..Len(u) |-> u[i] - LimbAt(v, i)])
         : u \in {x}, v \in {y}} : TRUE

\* x * k for 0 <= k <= Limb
BigMulSmall(x, k) ==
    CHOOSE r \in
      {BigCarry([i \in 1..Len(u) |-> u[i] * c]) : u \in {x}, c \in {k}} : TRUE

RECURSIVE ColumnFrom(_, _, _, _)
\* The sum of x[i] * y[k + 1 - i] from i on.
ColumnFrom(x, y, k, i) ==
    IF i > Len(x) \/ i > k THEN 0
    ELSE LimbAt(x, i) * LimbAt(y, k + 1 - i) + ColumnFrom(x, y, k, i + 1)

\* x * y for x and y of at most 7 limbs
BigMul(x, y) ==
    CHOOSE r \in
      {BigCarry([k \in 1..(Len(u) + Len(v)) |-> ColumnFrom(u, v, k, 1)])
         : u \in {x}, v \in {y}} : TRUE

\* x * 2^n
BigShl(x, n) ==
    CHOOSE r \in
      {IF v = <<>> THEN <<>> ELSE Zeros(n \div LimbBits) \o v
         : v \in {BigMulSmall(x, Pow2(n % LimbBits))}} : TRUE

\* floor(x / 2^n)
BigShr(x, n) ==
    CHOOSE r \in
      {IF limbs >= Len(u) THEN <<>>
       ELSE BigStrip([i \in 1..(Len(u) - limbs) |->
                LimbAt(u, i + limbs) \div Pow2(bits)
                  + (LimbAt(u, i + 1 + limbs) % Pow2(bits))
                      * Pow2(LimbBits - bits)])
         : u \in {x}, limbs \in {n \div LimbBits}, bits \in {n % LimbBits}} : TRUE

\* Number of bits of a limb: 0 for 0, 14 for 2^13 .. 2^14 - 1
LimbLen(l) ==
    IF l = 0 THEN 0
    ELSE CHOOSE k \in 1..LimbBits : Pow2(k - 1) <= l /\ l < Pow2(k)

\* Number of bits of x
BigLen(x) ==
    CHOOSE r \in
      {IF v = <<>> THEN 0 ELSE (Len(v) - 1) * LimbBits + LimbLen(v[Len(v)])
         : v \in {x}} : TRUE

\* Bit i of x, bit 0 the least significant
BigBit(x, i) == (LimbAt(x, i \div LimbBits + 1) \div Pow2(i % LimbBits)) % 2

\* The n lowest bits of x are all zero
BigLowZero(x, n) ==
    /\ \A i \in 1..(n \div LimbBits) : LimbAt(x, i) = 0
    /\ LimbAt(x, n \div LimbBits + 1) % Pow2(n % LimbBits) = 0

\* Number of trailing zero bits of x # 0
BigTrailingZeros(x) ==
    CHOOSE r \in
      {(i - 1) * LimbBits
          + (CHOOSE k \in 0..(LimbBits - 1) : v[i] % Pow2(k + 1) = Pow2(k))
         : v \in {x},
           i \in {CHOOSE i \in 1..Len(x) :
                     x[i] # 0 /\ \A j \in 1..(i - 1) : x[j] = 0}} : TRUE

\* -1, 0 or 1 as x is below, equal to or above y
BigCmp(x, y) ==
    CHOOSE r \in
      {IF Len(u) # Len(v) THEN (IF Len(u) < Len(v) THEN -1 ELSE 1)
       ELSE IF u = v THEN 0
       ELSE IF \E i \in 1..Len(u) :
                  u[i] < v[i] /\ \A j \in (i + 1)..Len(u) : u[j] = v[j]
            THEN -1 ELSE 1
         : u \in {x}, v \in {y}} : TRUE

\* The natural number n < 2^31 as limbs
BigOf(n) == BigStrip(<<n % Limb, (n \div Limb) % Limb, n \div (Limb * Limb)>>)

\* The value of x < 2^31
BigValue(x) == LimbAt(x, 1) + LimbAt(x, 2) * Limb + LimbAt(x, 3) * Limb * Limb

RECURSIVE BigDivSmallFrom(_, _, _, _)
\* The limbs i..1 of the quotient of x by d, most significant first, and
\* then the remainder.
BigDivSmallFrom(x, d, i, rem) ==
    IF i = 0 THEN <<rem>>
    ELSE CHOOSE r \in
           {<<v \div d>> \o BigDivSmallFrom(x, d, i - 1, v % d)
              : v \in {rem * Limb + x[i]}} : TRUE

\* The number whose limbs, most significant first, are all of qs but the last.
QuotientOf(qs) == BigStrip([i \in 1..(Len(qs) - 1) |-> qs[Len(qs) - i]])

\* The quotient q of x by d, 0 < d < Limb, and whether it is exact
BigDivSmall(x, d) ==
    CHOOSE r \in
      {[q |-> QuotientOf(qs),
        exact |-> qs[Len(qs)] = 0]
         : qs \in {BigDivSmallFrom(x, d, Len(x), 0)}} : TRUE

\* floor(r / d) for r < d * Limb and d with its highest limb 2^13 or more:
\* the estimate from the leading limbs is at most 2 too high.
QuotientLimb(r, d) ==
    CHOOSE q \in
      {IF BigCmp(BigMulSmall(d, qhat), r) <= 0 THEN qhat
       ELSE IF BigCmp(BigMulSmall(d, qhat - 1), r) <= 0 THEN qhat - 1
       ELSE qhat - 2
         : qhat \in
             {IF est > Limb - 1 THEN Limb - 1 ELSE est
                : est \in {(LimbAt(r, Len(d) + 1) * Limb + LimbAt(r, Len(d)))
                              \div d[Len(d)]}}} : TRUE

RECURSIVE BigDivFrom(_, _, _, _)
\* Long division: the limbs i..1 of x are still to be brought down to the
\* remainder rem.  The quotient's limbs, most significant first, and then
\* the remainder.
BigDivFrom(x, d, i, rem) ==
    IF i = 0 THEN <<rem>>
    ELSE CHOOSE s \in
           {<<q>> \o BigDivFrom(x, d, i - 1, BigSub(r, BigMulSmall(d, q)))
              : r \in {BigStrip(<<x[i]>> \o rem)},
                q \in {QuotientLimb(BigStrip(<<x[i]>> \o rem), d)}} : TRUE

\* The quotient q of x by d, d with its highest limb 2^13 or more, and
\* whether it is exact
BigDiv(x, d) ==
    CHOOSE r \in
      {[q |-> QuotientOf(qs),
        exact |-> qs[Len(qs)] = <<>>]
         : qs \in {BigDivFrom(x, d, Len(x), <<>>)}} : TRUE

\* A double: sign s in {-1, 0, 1}, and for s # 0 the magnitude m * 2^e with
\* 2^52 <= m < 2^53.  Zero is Zero; -0 is not told from 0, the program never
\* does.  The program's numbers stay far from the subnormal and the
\* infinite range.
Zero == [s |-> 0, e |-> 0, m |-> <<>>]

MantissaBits == 4 * LimbBits - 3

\* The mantissa q rounded up: q + 1, and when that has one bit too many,
\* half of it with the exponent one higher.
RoundUp(sign, q, drop, e) ==
    CHOOSE r \in
      {IF BigLen(up) > MantissaBits
       THEN [s |-> sign, e |-> e + drop + 1, m |-> BigShr(up, 1)]
       ELSE [s |-> sign, e |-> e + drop, m |-> up]
         : up \in {BigAdd(q, <<1>>)}} : TRUE

\* The double nearest to sign * m * 2^e (m # 0 of any size), ties to even.
RoundToDouble(sign, m, e) ==
    CHOOSE r \in
      {IF n <= MantissaBits
       THEN [s |-> sign, e |-> e - (MantissaBits - n),
             m |-> BigShl(v, MantissaBits - n)]
       ELSE CHOOSE t \in
              {IF /\ BigBit(v, n - MantissaBits - 1) = 1
                  /\ (\/ ~BigLowZero(v, n - MantissaBits - 1)
                      \/ q[1] % 2 = 1)
               THEN RoundUp(sign, q, n - MantissaBits, e)
               ELSE [s |-> sign, e |-> e + (n - MantissaBits), m |-> q]
                 : q \in {BigShr(v, n - MantissaBits)}} : TRUE
         : v \in {m}, n \in {BigLen(m)}} : TRUE

\* The double of the integer n, |n| < 2^31
FromInt(n) ==
    IF n = 0 THEN Zero
    ELSE RoundToDouble(IF n < 0 THEN -1 ELSE 1, BigOf(IF n < 0 THEN -n ELSE n), 0)

\* -a
FNeg(a) == CHOOSE r \in {[x EXCEPT !.s = -x.s] : x \in {a}} : TRUE

\* Math.abs(a)
FAbs(a) ==
    CHOOSE r \in {[x EXCEPT !.s = IF x.s = 0 THEN 0 ELSE 1] : x \in {a}} : TRUE

\* -1, 0 or 1 as |a| is below, equal to or above |b| (a, b # 0)
CmpMagnitude(a, b) ==
    IF a.e # b.e THEN (IF a.e < b.e THEN -1 ELSE 1) ELSE BigCmp(a.m, b.m)

\* -1, 0 or 1 as a is below, equal to or above b
FCmp(a, b) ==
    CHOOSE r \in
      {IF x.s # y.s THEN (IF x.s < y.s THEN -1 ELSE 1)
       ELSE IF x.s = 0 THEN 0
       ELSE x.s * CmpMagnitude(x, y)
         : x \in {a}, y \in {b}} : TRUE

\* a < b
FLt(a, b) == FCmp(a, b) < 0

\* a <= b
FLe(a, b) == FCmp(a, b) <= 0

\* a > b
FGt(a, b) == FCmp(a, b) > 0

\* a >= b
FGe(a, b) == FCmp(a, b) >= 0

\* Math.max(a, b)
FMax(a, b) == CHOOSE r \in {IF FCmp(x, y) >= 0 THEN x ELSE y : x \in {a}, y \in {b}} : TRUE

\* Math.min(a, b)
FMin(a, b) == CHOOSE r \in {IF FCmp(x, y) <= 0 THEN x ELSE y : x \in {a}, y \in {b}} : TRUE

\* a + b for |a| >= |b| > 0: a b below a quarter of a's last place leaves a.
AddOrdered(a, b) ==
    IF a.e - b.e > MantissaBits + 2 THEN a
    ELSE CHOOSE r \in
           {IF a.s = b.s THEN RoundToDouble(a.s, BigAdd(x, b.m), b.e)
            ELSE IF x = b.m THEN Zero
            ELSE RoundToDouble(a.s, BigSub(x, b.m), b.e)
              : x \in {BigShl(a.m, a.e - b.e)}} : TRUE

\* a + b
FAdd(a, b) ==
    CHOOSE r \in
      {IF x.s = 0 THEN y
       ELSE IF y.s = 0 THEN x
       ELSE IF CmpMagnitude(x, y) >= 0 THEN AddOrdered(x, y)
       ELSE AddOrdered(y, x)
         : x \in {a}, y \in {b}} : TRUE

\* a - b
FSub(a, b) == FAdd(a, FNeg(b))

\* a * b
FMul(a, b) ==
    CHOOSE r \in
      {IF x.s = 0 \/ y.s = 0 THEN Zero
       ELSE RoundToDouble(x.s * y.s, BigMul(x.m, y.m), x.e + y.e)
         : x \in {a}, y \in {b}} : TRUE

\* Twice the quotient, plus 1 when the division has left a remainder.
QuotientWithSticky(qr) ==
    BigAdd(BigMulSmall(qr.q, 2), IF qr.exact THEN <<>> ELSE <<1>>)

\* x / y for x, y # 0.  The divisor is d * 2^t with d odd; a d of one limb
\* is divided by limb by limb, a longer one by long division.
DivNonZero(x, y, t) ==
    IF MantissaBits - t <= LimbBits
    THEN RoundToDouble(x.s * y.s,
             QuotientWithSticky(BigDivSmall(BigShl(x.m, 4 * LimbBits),
                                            BigValue(BigShr(y.m, t)))),
             x.e - y.e - t - 4 * LimbBits - 1)
    ELSE RoundToDouble(x.s * y.s,
             QuotientWithSticky(BigDiv(BigShl(x.m, 4 * LimbBits + 3),
                                       BigShl(y.m, 3))),
             x.e - y.e - 4 * LimbBits - 1)

\* a / b for b # 0
FDiv(a, b) ==
    CHOOSE r \in
      {IF x.s = 0 THEN Zero ELSE DivNonZero(x, y, BigTrailingZeros(y.m))
         : x \in {a}, y \in {b}} : TRUE

RECURSIVE Pow10(_)
Pow10(n) == IF n <= 0 THEN 1 ELSE 10 * Pow10(n - 1)

\* The double of the decimal n / 10^k (0 <= k <= 9): what parseFloat and
\* JSON.parse make of its digits.
Dec(n, k) == IF k = 0 THEN FromInt(n) ELSE FDiv(FromInt(n), FromInt(Pow10(k)))

\* Math.round(a) as an integer: the nearest integer, a tie going up.
MathRound(a) ==
    CHOOSE r \in
      {IF x.s = 0 \/ -x.e > MantissaBits THEN 0
       ELSE IF BigBit(x.m, -x.e - 1) = 0 THEN x.s * BigValue(BigShr(x.m, -x.e))
       ELSE IF x.s > 0 THEN BigValue(BigShr(x.m, -x.e)) + 1
       ELSE IF BigLowZero(x.m, -x.e - 1) THEN -BigValue(BigShr(x.m, -x.e))
       ELSE -(BigValue(BigShr(x.m, -x.e)) + 1)
         : x \in {a}} : TRUE

----------------------------------------------------------------------------
(* The numbers the program and its inputs write as decimal literals, as the
   doubles nearest to them: D0_45 is 0.45, M0_5 is -0.5. *)

D0_0085 == [s |-> 1, e |-> -59, m |-> <<1180, 131, 1835, 1114>>]

D0_1 == [s |-> 1, e |-> -56, m |-> <<6554, 9830, 6553, 1638>>]

D0_15 == [s |-> 1, e |-> -55, m |-> <<13107, 3276, 13107, 1228>>]

D0_2 == [s |-> 1, e |-> -55, m |-> <<6554, 9830, 6553, 1638>>]

D0_25 == [s |-> 1, e |-> -54, m |-> <<0, 0, 0, 1024>>]

D0_3 == [s |-> 1, e |-> -54, m |-> <<13107, 3276, 13107, 1228>>]

D0_35 == [s |-> 1, e |-> -54, m |-> <<9830, 6553, 9830, 1433>>]

D0_4 == [s |-> 1, e |-> -54, m |-> <<6554, 9830, 6553, 1638>>]

D0_45 == [s |-> 1, e |-> -54, m |-> <<3277, 13107, 3276, 1843>>]

D0_5 == [s |-> 1, e |-> -53, m |-> <<0, 0, 0, 1024>>]

D0_6 == [s |-> 1, e |-> -53, m |-> <<13107, 3276, 13107, 1228>>]

D0_65 == [s |-> 1, e |-> -53, m |-> <<3277, 13107, 3276, 1331>>]

D0_7 == [s |-> 1, e |-> -53, m |-> <<9830, 6553, 9830, 1433>>]

D0_75 == [s |-> 1, e |-> -53, m |-> <<0, 0, 0, 1536>>]

D0_8 == [s |-> 1, e |-> -53, m |-> <<6554, 9830, 6553, 1638>>]

D0_85 == [s |-> 1, e |-> -53, m |-> <<13107, 3276, 13107, 1740>>]

D0_9 == [s |-> 1, e |-> -53, m |-> <<3277, 13107, 3276, 1843>>]

D0_95 == [s |-> 1, e |-> -53, m |-> <<9830, 6553, 9830, 1945>>]

D0_96 == [s |-> 1, e |-> -53, m |-> <<7864, 11796, 1310, 1966>>]

D1 == [s |-> 1, e |-> -52, m |-> <<0, 0, 0, 1024>>]

D1_2 == [s |-> 1, e |-> -52, m |-> <<13107, 3276, 13107, 1228>>]

D1_5 == [s |-> 1, e |-> -52, m |-> <<0, 0, 0, 1536>>]

D2 == [s |-> 1, e |-> -51, m |-> <<0, 0, 0, 1024>>]

D2_4 == [s |-> 1, e |-> -51, m |-> <<13107, 3276, 13107, 1228>>]

D3 == [s |-> 1, e |-> -51, m |-> <<0, 0, 0, 1536>>]

D4 == [s |-> 1, e |-> -50, m |-> <<0, 0, 0, 1024>>]

D4_5 == [s |-> 1, e |-> -50, m |-> <<0, 0, 0, 1152>>]

D5 == [s |-> 1, e |-> -50, m |-> <<0, 0, 0, 1280>>]

D5_000000000000004 == [s |-> 1, e |-> -50, m |-> <<5, 0, 0, 1280>>]

D50_000001 == [s |-> 1, e |-> -47, m |-> <<15312, 8589, 0, 1600>>]

D80 == [s |-> 1, e |-> -46, m |-> <<0, 0, 0, 1280>>]

D85 == [s |-> 1, e |-> -46, m |-> <<0, 0, 0, 1360>>]

D100 == [s |-> 1, e |-> -46, m |-> <<0, 0, 0, 1600>>]

D150 == [s |-> 1, e |-> -45, m |-> <<0, 0, 0, 1200>>]

D2_33 == [s |-> 1, e |-> -51, m |-> <<12452, 10485, 15728, 1192>>]
M0_5 == [s |-> -1, e |-> -53, m |-> <<0, 0, 0, 1024>>]

M0_8 == [s |-> -1, e |-> -53, m |-> <<6554, 9830, 6553, 1638>>]

M1 == [s |-> -1, e |-> -52, m |-> <<0, 0, 0, 1024>>]

M3 == [s |-> -1, e |-> -51, m |-> <<0, 0, 0, 1536>>]
----------------------------------------------------------------------------
(* Occupancy Normalizer: parseOccupancyRate, src/index.js 772-790 *)

Digits == {"0", "1", "5", "8"}

Alphabet == Digits \cup {".", "%", "N", "/", "A"}

DigitVal(c) ==
    CASE c = "0" -> 0
      [] c = "1" -> 1
      [] c = "5" -> 5
      [] c = "8" -> 8
      [] OTHER -> 0

\* The raw values parseOccupancyRate can be handed.
RawNull == [t |-> "null", v |-> Zero, s |-> <<>>]
RawUndefined == [t |-> "undefined", v |-> Zero, s |-> <<>>]
RawOther == [t |-> "other", v |-> Zero, s |-> <<>>]
RawNum(x) == [t |-> "number", v |-> x, s |-> <<>>]
RawStr(str) == [t |-> "string", v |-> Zero, s |-> str]

\* rateStr.match(/(\d+(\.\d+)?)%?/): the first (leftmost) digit starts the
\* match, \d+ is greedy, and the fraction is taken when a "." and at least
\* one digit follow.
FirstDigitAt(str) ==
    IF \E i \in 1..Len(str) : str[i] \in Digits
    THEN CHOOSE i \in 1..Len(str) :
            /\ str[i] \in Digits
            /\ \A j \in 1..(i - 1) : str[j] \notin Digits
    ELSE 0

\* End of the maximal run of digits that starts at position i.
DigitRunEnd(str, i) ==
    CHOOSE e \in i..Len(str) :
        /\ \A j \in i..e : str[j] \in Digits
        /\ (e = Len(str) \/ str[e + 1] \notin Digits)

RECURSIVE DigitsValue(_, _, _)
\* Value of the digits str[i..e] read as a decimal integer.
DigitsValue(str, i, e) ==
    IF e < i THEN 0
    ELSE DigitsValue(str, i, e - 1) * 10 + DigitVal(str[e])

\* match[1] of the regular expression, as [ok, int, frac, fracLen].
RegexMatch(str) ==
    LET i == FirstDigitAt(str) IN
    IF i = 0 THEN [ok |-> FALSE, int |-> 0, frac |-> 0, fracLen |-> 0]
    ELSE
      LET e == DigitRunEnd(str, i)
          hasFrac == /\ e + 2 <= Len(str)
                     /\ str[e + 1] = "."
                     /\ str[e + 2] \in Digits
          f == IF hasFrac THEN DigitRunEnd(str, e + 2) ELSE e
      IN [ok |-> TRUE,
          int |-> DigitsValue(str, i, e),
          frac |-> IF hasFrac THEN DigitsValue(str, e + 2, f) ELSE 0,
          fracLen |-> IF hasFrac THEN f - (e + 1) ELSE 0]

\* parseFloat(match[1]): the double nearest to the decimal numeral.
ParseFloat(m) == Dec(m.int * Pow10(m.fracLen) + m.frac, m.fracLen)

\* parseFloat(match[1]) > 1
TokenAboveOne(m) == FGt(ParseFloat(m), D1)

\* parseFloat(match[1]) / 100
ParseFloatOver100(m) == FDiv(ParseFloat(m), D100)

\* A mutant of ParseOccupancyRate: the string branch applies the number
\* branch's rule (divide by 100 only when the value exceeds 1).
ParseOccupancyRateStringAsNumber(rateStr) ==
    IF rateStr.t \in {"null", "undefined"} THEN Zero
    ELSE IF rateStr.t = "string" /\ rateStr.s \in {<<"N", "/", "A">>, <<>>} THEN Zero
    ELSE IF rateStr.t = "number"
         THEN IF FGt(rateStr.v, D1) THEN FDiv(rateStr.v, D100) ELSE rateStr.v
    ELSE IF rateStr.t # "string" THEN Zero
    ELSE LET m == RegexMatch(rateStr.s) IN
         IF ~m.ok THEN Zero
         ELSE IF TokenAboveOne(m) THEN ParseFloatOver100(m) ELSE ParseFloat(m)

\* A mutant of ParseOccupancyRate: a number is returned as it is, never
\* brought from percent to decimal form.
ParseOccupancyRateNumberAsIs(rateStr) ==
    IF rateStr.t \in {"null", "undefined"} THEN Zero
    ELSE IF rateStr.t = "string" /\ rateStr.s \in {<<"N", "/", "A">>, <<>>} THEN Zero
    ELSE IF rateStr.t = "number" THEN rateStr.v
    ELSE IF rateStr.t # "string" THEN Zero
    ELSE LET m == RegexMatch(rateStr.s) IN
         IF ~m.ok THEN Zero ELSE ParseFloatOver100(m)

ParseOccupancyRate(rateStr) ==
    IF rateStr.t \in {"null", "undefined"} THEN Zero
    ELSE IF rateStr.t = "string" /\ rateStr.s \in {<<"N", "/", "A">>, <<>>} THEN Zero
    ELSE IF rateStr.t = "number"
         THEN IF FGt(rateStr.v, D1) THEN FDiv(rateStr.v, D100) ELSE rateStr.v
    ELSE IF rateStr.t # "string" THEN Zero
    ELSE LET m == RegexMatch(rateStr.s) IN
         IF ~m.ok THEN Zero ELSE ParseFloatOver100(m)


----------------------------------------------------------------------------
(* Data: configuration, ledger records, property statistics *)

Props == {"p1", "p2"}

PriceTypes == {"min", "base"}

\* Defaults of getPropertyStrategy / calculateAdjustedPrice when config.json
\* names no weights and no thresholds (the README's config.json names
\* neither): weights 0.6, 0.3, 0.1 (lines 808, 982) and thresholds 0.85, 0.5,
\* 0.4, 0.2 (lines 811, 990).
DefaultWeights == [sevenDay |-> D0_6, thirtyDay |-> D0_3, sixtyDay |-> D0_1]

DefaultThresholds ==
    [high |-> D0_85, medium |-> D0_5, low |-> D0_4, critical |-> D0_2]

\* The config.json of the README: strategy "hold", increase 2%, decrease 2%,
\* hold oscillation 1%.
ReadmeConfig ==
    [strategy |-> "hold",
     occupancyWeights |-> DefaultWeights,
     occupancyThresholds |-> DefaultThresholds,
     increase |-> D2,
     decrease |-> D2,
     oscillation |-> D1]

NoPrice == [has |-> FALSE, before |-> 0, after |-> 0]

Price(b, a) == [has |-> TRUE, before |-> b, after |-> a]

Occ(a, b, c) == [d7 |-> a, d30 |-> b, d60 |-> c]

NoOccupancy == Occ(RawUndefined, RawUndefined, RawUndefined)

\* The `error` of an entry of `changes`.  Price records have none.  The
\* record of a failed property (492-496) has error.message of what was
\* thrown: a message, the empty string (new Error("")), or undefined when
\* what was thrown has no message (a string, a number), which JSON.stringify
\* leaves out of the file.
NoError == "undefined"

EmptyMessage == ""

Message == "message"

ErrorMessages == {NoError, EmptyMessage, Message}

\* if (entry.error), line 695.
Truthy(error) == error \notin {NoError, EmptyMessage}

\* One entry of the ledger's `changes`.
ChangeRecord(u, d, hasOcc, occ, minP, baseP, err) ==
    [url |-> u, date |-> d, hasOccupancy |-> hasOcc, occupancy |-> occ,
     minPrice |-> minP, basePrice |-> baseP, error |-> err]

NoValue == [has |-> FALSE, v |-> 0]

Some(x) == [has |-> TRUE, v |-> x]

\* runBot before it has started: nothing processed, `changes` empty (line 42),
\* hasUiOnlyChanges false (line 50), no write of the ledger made, no
\* <logFile>.partial file, no browser launched.  `today` is the constant of
\* line 43, which the process sets when it is loaded.
NoBot ==
    [pc |-> "idle", i |-> 0, changes |-> <<>>, hasUiOnlyChanges |-> FALSE,
     writes |-> 0, partial |-> FALSE, browser |-> "none", today |-> 0]

\* A property without an entry in the propertyStats map.
NoStats ==
    [has |-> FALSE, occupancyHistory |-> <<>>, priceHistory |-> <<>>,
     adjustmentHistory |-> <<>>, lastOscillationDirection |-> NoValue,
     lastUpdate |-> NoValue]

\* No process has run before this one.
NoPrevious == [has |-> FALSE, stats |-> [u \in Props |-> NoStats]]

\* retry has not been called.  lastError is "undefined" until fn has thrown
\* (line 70); `errors` lists what fn threw, `invocations` and `delays` count
\* the calls of fn and the delays taken, `result` and `thrown` are what the
\* caller of retry received.
NoRetry ==
    [pc |-> "idle", maxRetries |-> 0, attempt |-> 0, lastError |-> "undefined",
     errors |-> <<>>, invocations |-> 0, delays |-> 0,
     result |-> "none", thrown |-> "none"]

\* The ledger file: missing, a single object {lastRun, changes}, an array of
\* such objects, text JSON.parse rejects ("invalid"), the JSON text null, a
\* JSON primitive such as 42 or "x", or an object without `changes`.
MissingFile == [kind |-> "missing", lastRun |-> 0, changes |-> <<>>, runs |-> <<>>]

ObjectFile(lr, ch) == [kind |-> "object", lastRun |-> lr, changes |-> ch, runs |-> <<>>]

ArrayFile(rs) == [kind |-> "array", lastRun |-> 0, changes |-> <<>>, runs |-> rs]

InvalidFile == [kind |-> "invalid", lastRun |-> 0, changes |-> <<>>, runs |-> <<>>]

NullFile == [kind |-> "null", lastRun |-> 0, changes |-> <<>>, runs |-> <<>>]

PrimitiveFile == [kind |-> "primitive", lastRun |-> 0, changes |-> <<>>, runs |-> <<>>]

BareObjectFile == [kind |-> "bare", lastRun |-> 0, changes |-> <<>>, runs |-> <<>>]

\* The parsed file is null or a primitive: setting a property on it throws a
\* TypeError (both files are strict-mode code: an ES module and a class body).
NotAnObject(file) == file.kind \in {"null", "primitive"}

\* The backup file: absent, or {lastRun, changes} with the changes given.
NoBackup == [has |-> FALSE, changes |-> <<>>]

BackupOf(changes) == [has |-> TRUE, changes |-> changes]

----------------------------------------------------------------------------
(* Dates *)

\* getDay() of a calendar date: 0 is Sunday, 6 is Saturday.
DayOfWeek(d) == d % 7

\* The offsets of the local calendar date from the UTC date: a process west
\* of Greenwich in its evening, at UTC, east of Greenwich in its morning (at
\* 11:00 UTC: a process at UTC-12, at UTC, at UTC+13).
Zones == {-1, 0, 1}

\* The calendar date of the local clock (new Date().getDay(), line 1006) on the UTC
\* date `now` (toISOString, lines 1162, 1196).
LocalDate(now) == now + zone

\* Instants, which Date.getTime() gives in milliseconds, are a UTC date and
\* the milliseconds that have passed since its midnight.
Hours(n) == n * 3600000

Instant(d, ms) == [day |-> d + (ms \div Hours(24)), ms |-> ms % Hours(24)]

\* a >= b on two Date objects.
AtOrAfter(a, b) == a.day > b.day \/ (a.day = b.day /\ a.ms >= b.ms)

\* Clocks.  A time of day in the middle of the UTC day, in a week without a
\* clock change; 00:00:00.000 UTC exactly; half past midnight UTC in a week
\* in which the local clocks went back an hour; the last second of the UTC
\* day, and the first second of the next.
OrdinaryClock == [time |-> Hours(11), change |-> 0]

MidnightClock == [time |-> 0, change |-> 0]

ClocksBackClock == [time |-> 1800000, change |-> 0 - Hours(1)]

LastSecondClock == [time |-> Hours(24) - 1000, change |-> 0]

FirstSecondClock == [time |-> 1000, change |-> 0]

\* The clock of a call made on the UTC date `now`.  The engine's operations
\* are handed the date of the call; its time of day is the process's clock
\* when the call is made on the current date, and the first second of the
\* day when the date changed just before the call (the second call of an
\* iteration of the bot, made after midnight).
ClockOn(now) == IF now > today THEN FirstSecondClock ELSE clock

\* new Date("YYYY-MM-DD") (lines 853, 1029): UTC midnight of the date.
DateInstant(d) == Instant(d, 0)

\* new Date() (lines 854, 1024) on the UTC date `now`: the time of day is
\* the time that has passed since UTC midnight.
CurrentInstant(now) == Instant(now, ClockOn(now).time)

\* sevenDaysAgo.setDate(sevenDaysAgo.getDate() - 7) (lines 855, 1026): the
\* same local wall-clock time seven local calendar days back.  clock.change
\* is the local clock's offset from UTC now minus its offset seven days ago:
\* 0 in a week without a clock change, one hour after the clocks went
\* forward (the week had 167 hours), minus one hour after they went back.
SevenDaysAgo(now) ==
    Instant(CurrentInstant(now).day - 7,
            CurrentInstant(now).ms + ClockOn(now).change)

\* adjustmentDate >= sevenDaysAgo (lines 857, 1030).  At an ordinary time of
\* day the dates today-6 .. today (and later) qualify; at 00:00:00.000 UTC, or
\* in the first hour of the UTC day after the clocks went back, today-7
\* qualifies too; in the last hour of the UTC day after the clocks went
\* forward, today-6 does not.
InLast7Days(d, now) == AtOrAfter(DateInstant(d), SevenDaysAgo(now))

----------------------------------------------------------------------------
(* History Ingestor: initialize, src/index.js 648-673, and
   analyzeHistoricalData, 692-765 *)

\* A variant of LoadLogs that reads only the first run of an array of runs.
LoadLogsFirstRun(file) ==
    IF file.kind = "array"
    THEN IF file.runs = <<>> THEN <<>> ELSE file.runs[1].changes
    ELSE IF file.kind = "object" THEN file.changes
    ELSE <<>>

\* A variant of LoadLogs that puts the changes of the last run first.
LoadLogsLastRunFirst(file) ==
    IF file.kind = "array"
    THEN LET RECURSIVE Flat(_)
             Flat(rs) == IF rs = <<>> THEN <<>>
                         ELSE Flat(Tail(rs)) \o Head(rs).changes
         IN Flat(file.runs)
    ELSE IF file.kind = "object" THEN file.changes
    ELSE <<>>

\* logData as initialize flattens it (656-663).
LoadLogs(file) ==
    IF file.kind = "array"
    THEN LET RECURSIVE Flat(_)
             Flat(rs) == IF rs = <<>> THEN <<>>
                         ELSE Head(rs).changes \o Flat(Tail(rs))
         IN Flat(file.runs)
    ELSE IF file.kind = "object" THEN file.changes
    ELSE <<>>

\* ((after - before) / before) * 100
PercentChange(p) ==
    FMul(FDiv(FromInt(p.after - p.before), FromInt(p.before)), D100)

\* The adjustment record analyzeHistoricalData derives from an entry (736-755).
ReplayedAdjustment(entry) ==
    CHOOSE r \in
      {[date |-> entry.date,
        strategy |-> IF FGt(minPct, D0_5) \/ FGt(basePct, D0_5) THEN "increase"
                     ELSE IF FLt(minPct, M0_5) \/ FLt(basePct, M0_5) THEN "decrease"
                     ELSE "hold",
        percentChange |-> NoValue,
        minPricePercentChange |-> minPct,
        basePricePercentChange |-> basePct]
         : minPct \in {PercentChange(entry.minPrice)},
           basePct \in {PercentChange(entry.basePrice)}} : TRUE

\* The entries the loop of analyzeHistoricalData processes for `url`, in the
\* order of the log (695-697).
EntriesOf(log, url) ==
    SelectSeq(log, LAMBDA entry : ~Truthy(entry.error) /\ entry.url = url)

\* What the loop pushes onto stats.occupancyHistory (711-718).
OccupancyHistoryOf(entries) ==
    Let(SelectSeq(entries, LAMBDA entry : entry.hasOccupancy),
        LAMBDA es :
          [i \in 1..Len(es) |->
              [date |-> es[i].date,
               sevenDay |-> ParseOccupancyRate(es[i].occupancy.d7),
               thirtyDay |-> ParseOccupancyRate(es[i].occupancy.d30),
               sixtyDay |-> ParseOccupancyRate(es[i].occupancy.d60)]])

\* What the loop pushes onto stats.priceHistory (721-734).
PriceHistoryOf(entries) ==
    Let(SelectSeq(entries, LAMBDA entry : entry.minPrice.has /\ entry.basePrice.has),
        LAMBDA es :
          [i \in 1..Len(es) |->
              [date |-> es[i].date,
               minPrice |-> es[i].minPrice,
               basePrice |-> es[i].basePrice]])

\* What the loop pushes onto stats.adjustmentHistory (721, 737-755).
AdjustmentHistoryOf(entries) ==
    Let(SelectSeq(entries,
                  LAMBDA entry : /\ entry.minPrice.has /\ entry.basePrice.has
                                 /\ entry.minPrice.before > 0
                                 /\ entry.basePrice.before > 0),
        LAMBDA es : [i \in 1..Len(es) |-> ReplayedAdjustment(es[i])])

\* stats.lastUpdate after the loop (758-761): the latest date of the entries.
LastUpdateOf(entries) ==
    Let({entries[i].date : i \in 1..Len(entries)},
        LAMBDA dates : CHOOSE d \in dates : \A e \in dates : e <= d)

\* propertyStats.get(url) after analyzeHistoricalData has gone through logs.
StatsOf(log, url) ==
    Let(EntriesOf(log, url),
        LAMBDA entries :
          IF entries = <<>> THEN NoStats
          ELSE [has |-> TRUE,
                occupancyHistory |-> OccupancyHistoryOf(entries),
                priceHistory |-> PriceHistoryOf(entries),
                adjustmentHistory |-> AdjustmentHistoryOf(entries),
                lastOscillationDirection |-> NoValue,
                lastUpdate |-> Some(LastUpdateOf(entries))])

\* new Map(), line 640.
NoPropertyStats == [url \in Props |-> NoStats]

\* propertyStats.get(url) after analyzeHistoricalData has gone through `log`,
\* `stats` being what the map held before: the entry is created only where
\* the map has none (697-705), the arrays are pushed onto (712, 733, 748),
\* lastUpdate moves to a later date only (759-761), and
\* lastOscillationDirection is not touched.
StatsAfterAnalysis(stats, log, url) ==
    Let(StatsOf(log, url),
        LAMBDA new :
          IF ~new.has THEN stats
          ELSE IF ~stats.has THEN new
          ELSE [has |-> TRUE,
                occupancyHistory |-> stats.occupancyHistory \o new.occupancyHistory,
                priceHistory |-> stats.priceHistory \o new.priceHistory,
                adjustmentHistory |->
                    stats.adjustmentHistory \o new.adjustmentHistory,
                lastOscillationDirection |-> stats.lastOscillationDirection,
                lastUpdate |-> IF /\ stats.lastUpdate.has
                                  /\ stats.lastUpdate.v >= new.lastUpdate.v
                               THEN stats.lastUpdate
                               ELSE new.lastUpdate])

\* this.propertyStats after analyzeHistoricalData() has gone through
\* this.logs = log.
AnalyzeHistoricalData(stats, log) ==
    Let(log, LAMBDA entries :
              [url \in Props |-> StatsAfterAnalysis(stats[url], entries, url)])

\* initialize reads the file and gets as far as line 656: the file exists and
\* is JSON (the throw of JSON.parse is caught at 669).
Parsed(file) == file.kind \notin {"missing", "invalid"}

\* initialize gets as far as analyzeHistoricalData (665): reading `changes`
\* of null (660) throws as well.
Analyzed(file) == Parsed(file) /\ file.kind # "null"

\* this.logs after initialize (656-661): assigned when the flattening has
\* not thrown.
LogsAfterInitialize(file, oldLogs) ==
    IF Analyzed(file) THEN LoadLogs(file) ELSE oldLogs

\* this.propertyStats after initialize (665).
StatsAfterInitialize(file, stats, oldLogs) ==
    IF Analyzed(file)
    THEN AnalyzeHistoricalData(stats, LogsAfterInitialize(file, oldLogs))
    ELSE stats

----------------------------------------------------------------------------
(* Trend Estimator: calculateOccupancyTrend, src/index.js 952-969 *)

\* Position of occupancyHistory[i] after the (stable) sort by date, most
\* recent first: the number of entries sorted before it.
SortRank(h, i) ==
    Cardinality({j \in 1..Len(h) :
                    \/ h[j].date > h[i].date
                    \/ (h[j].date = h[i].date /\ j < i)})

SortedAt(h, k) == h[CHOOSE i \in 1..Len(h) : SortRank(h, i) = k]

\* A variant of CalculateOccupancyTrend that does not sort: it takes the first
\* two entries as they are stored.
CalculateOccupancyTrendUnsorted(occupancyHistory) ==
    IF Len(occupancyHistory) < 2 THEN Zero
    ELSE FMul(FSub(occupancyHistory[1].sevenDay, occupancyHistory[2].sevenDay),
              D100)

\* (sorted[0].sevenDay - sorted[1].sevenDay) * 100, in percentage points.
CalculateOccupancyTrend(occupancyHistory) ==
    IF Len(occupancyHistory) < 2 THEN Zero
    ELSE FMul(FSub(SortedAt(occupancyHistory, 0).sevenDay,
                   SortedAt(occupancyHistory, 1).sevenDay),
              D100)

----------------------------------------------------------------------------
(* Strategy Classifier: getPropertyStrategy, src/index.js 798-945 *)

Max(a, b) == IF a >= b THEN a ELSE b

Min(a, b) == IF a <= b THEN a ELSE b

\* weightedOcc: the three products, added from left to right.
WeightedOcc(cfg, o7, o30, o60) ==
    FAdd(FAdd(FMul(o7, cfg.occupancyWeights.sevenDay),
              FMul(o30, cfg.occupancyWeights.thirtyDay)),
         FMul(o60, cfg.occupancyWeights.sixtyDay))

NoMomentum ==
    [consecutiveIncreases |-> 0, consecutiveDecreases |-> 0,
     cumulativeIncrease |-> Zero, cumulativeDecrease |-> Zero,
     sevenDayIncrease |-> Zero, sevenDayDecrease |-> Zero]

\* The 7-day totals of lines 852-864 for one adjustment.
AddSevenDayTotals(acc, adjustment, now) ==
    IF InLast7Days(adjustment.date, now)
    THEN IF FGt(adjustment.basePricePercentChange, Zero)
         THEN [acc EXCEPT !.sevenDayIncrease =
                    FAdd(@, adjustment.basePricePercentChange)]
         ELSE IF FLt(adjustment.basePricePercentChange, Zero)
         THEN [acc EXCEPT !.sevenDayDecrease =
                    FAdd(@, FAbs(adjustment.basePricePercentChange))]
         ELSE acc
    ELSE acc

\* Lines 866-883 for one adjustment: the counters after it, and whether the
\* loop goes on to the next (older) index.
AddToChain(acc, adjustment) ==
    IF /\ adjustment.strategy = "increase"
       /\ (\/ FGt(adjustment.minPricePercentChange, Zero)
           \/ FGt(adjustment.basePricePercentChange, Zero))
    THEN [acc |-> [acc EXCEPT
                     !.consecutiveIncreases = @ + 1,
                     !.cumulativeIncrease =
                         FAdd(@, FMax(adjustment.minPricePercentChange,
                                      adjustment.basePricePercentChange))],
          goOn |-> ~(acc.consecutiveDecreases > 0)]
    ELSE IF /\ adjustment.strategy = "decrease"
            /\ (\/ FLt(adjustment.minPricePercentChange, Zero)
                \/ FLt(adjustment.basePricePercentChange, Zero))
    THEN [acc |-> [acc EXCEPT
                     !.consecutiveDecreases = @ + 1,
                     !.cumulativeDecrease =
                         FAdd(@, FAbs(FMin(adjustment.minPricePercentChange,
                                           adjustment.basePricePercentChange)))],
          goOn |-> ~(acc.consecutiveIncreases > 0)]
    ELSE [acc |-> acc, goOn |-> FALSE]

RECURSIVE MomentumWalk(_, _, _, _)
\* The loop of lines 849-884 from index i of recentAdjustments downwards.
MomentumWalk(recent, i, acc, now) ==
    IF i < 1 THEN acc
    ELSE Let(AddToChain(AddSevenDayTotals(acc, recent[i], now), recent[i]),
             LAMBDA step : IF step.goOn
                           THEN MomentumWalk(recent, i - 1, step.acc, now)
                           ELSE step.acc)

\* adjustmentHistory.slice(-7)
LastSeven(h) == SubSeq(h, Max(1, Len(h) - 6), Len(h))

Momentum(stats, now) ==
    Let(LastSeven(stats.adjustmentHistory),
        LAMBDA recentAdjustments :
            MomentumWalk(recentAdjustments, Len(recentAdjustments), NoMomentum, now))

\* forceHold of lines 830-908.
ForceHold(stats, now) ==
    /\ stats.has
    /\ Len(stats.adjustmentHistory) > 0
    /\ Let(Momentum(stats, now),
           LAMBDA m : \/ FGe(m.cumulativeIncrease, D3)
                      \/ FGe(m.sevenDayIncrease, D4)
                      \/ m.consecutiveDecreases >= 3)

\* A variant of GetPropertyStrategy whose low-occupancy test leaves out the
\* comparison of 7-day occupancy with thresholds.medium.
GetPropertyStrategyNoMedium(cfg, stats, currentOccupancy, now) ==
    CHOOSE strategy \in
      {IF ForceHold(stats, now) THEN "hold"
       ELSE IF FGe(current7DayOcc, cfg.occupancyThresholds.high) THEN "increase"
       ELSE IF FLt(weightedOcc, cfg.occupancyThresholds.low) THEN "decrease"
       ELSE IF stats.has
            THEN IF \/ FGt(CalculateOccupancyTrend(stats.occupancyHistory), D5)
                    \/ FGt(current7DayOcc, D0_7)
                 THEN "increase"
                 ELSE IF \/ FLt(CalculateOccupancyTrend(stats.occupancyHistory), M3)
                         \/ FLt(weightedOcc, D0_45)
                 THEN "decrease"
                 ELSE "hold"
       ELSE cfg.strategy
         : current7DayOcc \in {ParseOccupancyRate(currentOccupancy.d7)},
           weightedOcc \in
               {WeightedOcc(cfg, ParseOccupancyRate(currentOccupancy.d7),
                            ParseOccupancyRate(currentOccupancy.d30),
                            ParseOccupancyRate(currentOccupancy.d60))}} : TRUE

\* The choice of lines 916-941, the occupancies parsed and weighted.
StrategyByOccupancy(cfg, stats, current7DayOcc, weightedOcc, occupancyTrend) ==
    IF FGe(current7DayOcc, cfg.occupancyThresholds.high) THEN "increase"
    ELSE IF /\ FLt(weightedOcc, cfg.occupancyThresholds.low)
            /\ FLt(current7DayOcc, cfg.occupancyThresholds.medium)
         THEN "decrease"
    ELSE IF stats.has
         THEN IF FGt(occupancyTrend, D5) \/ FGt(current7DayOcc, D0_7)
              THEN "increase"
              ELSE IF FLt(occupancyTrend, M3) \/ FLt(weightedOcc, D0_45)
              THEN "decrease"
              ELSE "hold"
    ELSE cfg.strategy

GetPropertyStrategy(cfg, stats, currentOccupancy, now) ==
    IF ForceHold(stats, now) THEN "hold"
    ELSE
      CHOOSE strategy \in
        {StrategyByOccupancy(cfg, stats, current7DayOcc, weightedOcc, occupancyTrend)
           : current7DayOcc \in {ParseOccupancyRate(currentOccupancy.d7)},
             weightedOcc \in
                 {WeightedOcc(cfg, ParseOccupancyRate(currentOccupancy.d7),
                              ParseOccupancyRate(currentOccupancy.d30),
                              ParseOccupancyRate(currentOccupancy.d60))},
             occupancyTrend \in {CalculateOccupancyTrend(stats.occupancyHistory)}}
        : TRUE

----------------------------------------------------------------------------
(* Adjustment Calculator: calculateAdjustedPrice, src/index.js 979-1234 *)

\* What one adjustment adds to sevenDayIncrease (1029-1039).
CountedIncrease(adjustment, priceType, now) ==
    LET changeToUse == IF priceType = "min"
                       THEN adjustment.minPricePercentChange
                       ELSE adjustment.basePricePercentChange
    IN IF InLast7Days(adjustment.date, now) /\ FGt(changeToUse, Zero)
       THEN changeToUse ELSE Zero

RECURSIVE SevenDayIncreaseOver(_, _, _, _, _)
\* The loop of lines 1028-1040 over adjustmentHistory[lo..hi]: the counted
\* changes are added one after the other, in the order of the array.
SevenDayIncreaseOver(h, lo, hi, priceType, now) ==
    IF lo > hi THEN Zero
    ELSE FAdd(SevenDayIncreaseOver(h, lo, hi - 1, priceType, now),
              CountedIncrease(h[hi], priceType, now))

\* sevenDayIncrease: the adjustments that add nothing are left out before
\* the others are added up.
SevenDayIncrease(stats, priceType, now) ==
    IF stats.has
    THEN Let(SelectSeq(stats.adjustmentHistory,
                       LAMBDA a : CountedIncrease(a, priceType, now) # Zero),
             LAMBDA h : SevenDayIncreaseOver(h, 1, Len(h), priceType, now))
    ELSE Zero

\* x * factor, for the factors 1.5, 1.2, 0.8 and 0.7.
Scale(x, factor) == FMul(x, factor)

\* A variant of IncreaseBranch that never scales the configured percentage.
IncreaseBranchUnscaled(cfg, sevenDayOcc, sevenDayIncrease) ==
    IF FGt(FAdd(sevenDayIncrease, cfg.increase), D5)
    THEN [pct |-> M1, branch |-> "increaseCappedDown", storeOsc |-> FALSE]
    ELSE [pct |-> cfg.increase, branch |-> "increase", storeOsc |-> FALSE]

\* A variant of DecreaseBranch that never scales the configured percentage.
DecreaseBranchUnscaled(cfg, weightedOcc, sevenDayOcc, thirtyDayOcc) ==
    [pct |-> FNeg(cfg.decrease), branch |-> "decrease", storeOsc |-> FALSE]

\* The percentage the increase branch plans before the cap (1047-1059).
PlannedAdjustment(cfg, sevenDayOcc) ==
    IF FGe(sevenDayOcc, D0_95) THEN Scale(cfg.increase, D1_5)
    ELSE IF FGe(sevenDayOcc, cfg.occupancyThresholds.high)
         THEN Scale(cfg.increase, D1_2)
    ELSE cfg.increase

\* A variant of IncreaseBranch whose cap keeps a reduced increase below 1%.
IncreaseBranchKeepsSmall(cfg, sevenDayOcc, sevenDayIncrease) ==
    Let(PlannedAdjustment(cfg, sevenDayOcc),
        LAMBDA planned :
          IF FGt(FAdd(sevenDayIncrease, planned), D5)
          THEN [pct |-> FMax(Zero, FSub(D5, sevenDayIncrease)),
                branch |-> "increaseCapped", storeOsc |-> FALSE]
          ELSE [pct |-> planned, branch |-> "increase", storeOsc |-> FALSE])

\* Lines 1045-1073: the increase branch.
IncreaseBranch(cfg, sevenDayOcc, sevenDayIncrease) ==
    Let(PlannedAdjustment(cfg, sevenDayOcc),
        LAMBDA planned :
          IF FGt(FAdd(sevenDayIncrease, planned), D5)
          THEN Let(FMax(Zero, FSub(D5, sevenDayIncrease)),
                   LAMBDA newAdjustment :
                     IF FLt(newAdjustment, D1)
                     THEN [pct |-> M1, branch |-> "increaseCappedDown",
                           storeOsc |-> FALSE]
                     ELSE [pct |-> newAdjustment, branch |-> "increaseCapped",
                           storeOsc |-> FALSE])
          ELSE [pct |-> planned, branch |-> "increase", storeOsc |-> FALSE])

\* Lines 1076-1091: the decrease branch.
DecreaseBranch(cfg, weightedOcc, sevenDayOcc, thirtyDayOcc) ==
    IF FLt(weightedOcc, cfg.occupancyThresholds.critical)
    THEN [pct |-> Scale(FNeg(cfg.decrease), D1_5), branch |-> "decreaseCritical",
          storeOsc |-> FALSE]
    ELSE IF FLt(sevenDayOcc, D0_3) /\ FLt(thirtyDayOcc, cfg.occupancyThresholds.low)
    THEN [pct |-> Scale(FNeg(cfg.decrease), D1_2), branch |-> "decreaseVeryLow",
          storeOsc |-> FALSE]
    ELSE [pct |-> FNeg(cfg.decrease), branch |-> "decrease", storeOsc |-> FALSE]

\* Lines 1129-1146 of the hold branch: the weighted occupancy is outside the
\* healthy range.
HoldOutsideRange(cfg, weightedOcc, sevenDayIncrease) ==
    IF FLt(weightedOcc, cfg.occupancyThresholds.low)
    THEN [pct |-> Scale(FNeg(cfg.decrease), D0_7), branch |-> "holdLow",
          storeOsc |-> FALSE]
    ELSE Let(Scale(cfg.increase, D0_7),
             LAMBDA planned :
               IF FGt(FAdd(sevenDayIncrease, planned), D5)
               THEN [pct |-> FMax(Zero, FSub(D5, sevenDayIncrease)),
                     branch |-> "holdHighCapped", storeOsc |-> FALSE]
               ELSE [pct |-> planned, branch |-> "holdHigh", storeOsc |-> FALSE])

\* Lines 1116-1127: the cap of a positive oscillation.
CappedOscillation(planned, sevenDayIncrease) ==
    IF FGt(planned, Zero) /\ FGt(FAdd(sevenDayIncrease, planned), D4_5)
    THEN [pct |-> M1, branch |-> "holdOscillationCapped", storeOsc |-> TRUE]
    ELSE [pct |-> planned, branch |-> "holdOscillation", storeOsc |-> TRUE]

\* A variant of HoldBranch whose oscillation is not scaled on a weekend.
HoldBranchNoWeekend(cfg, weightedOcc, lastOscillationDirection, sevenDayIncrease, dayOfWeek) ==
    IF /\ FGe(weightedOcc, cfg.occupancyThresholds.low)
       /\ FLe(weightedOcc, cfg.occupancyThresholds.high)
    THEN CappedOscillation(
             IF /\ lastOscillationDirection.has
                /\ FGt(lastOscillationDirection.v, Zero)
             THEN FNeg(cfg.oscillation) ELSE cfg.oscillation,
             sevenDayIncrease)
    ELSE HoldOutsideRange(cfg, weightedOcc, sevenDayIncrease)

\* Lines 1093-1147: the hold branch.
HoldBranch(cfg, weightedOcc, lastOscillationDirection, sevenDayIncrease, dayOfWeek) ==
    IF /\ FGe(weightedOcc, cfg.occupancyThresholds.low)
       /\ FLe(weightedOcc, cfg.occupancyThresholds.high)
    THEN LET baseOsc == cfg.oscillation
             oscillationDirection ==
                 IF lastOscillationDirection.has
                 THEN IF FGt(lastOscillationDirection.v, Zero) THEN -1 ELSE 1
                 ELSE 1
             isWeekend == dayOfWeek = 0 \/ dayOfWeek = 6
             oscillationMagnitude ==
                 IF isWeekend
                 THEN IF oscillationDirection > 0 THEN Scale(baseOsc, D1_2)
                      ELSE Scale(baseOsc, D0_8)
                 ELSE baseOsc
         IN Let(IF oscillationDirection > 0 THEN oscillationMagnitude
                ELSE FNeg(oscillationMagnitude),
                LAMBDA planned : CappedOscillation(planned, sevenDayIncrease))
    ELSE HoldOutsideRange(cfg, weightedOcc, sevenDayIncrease)

\* Math.round(currentPrice + currentPrice * (adjustmentPercentage / 100))
RoundedPrice(currentPrice, pct) ==
    MathRound(FAdd(FromInt(currentPrice),
                   FMul(FromInt(currentPrice), FDiv(pct, D100))))

\* Math.round(recentBasePrice * 0.8)
MinAllowedPrice(recentBasePrice) == MathRound(FMul(FromInt(recentBasePrice), D0_8))

\* Index of currentChanges.find(change => change.url === propertyUrl), or 0.
FindChange(changes, url) ==
    IF \E i \in 1..Len(changes) : changes[i].url = url
    THEN CHOOSE i \in 1..Len(changes) :
            /\ changes[i].url = url
            /\ \A j \in 1..(i - 1) : changes[j].url # url
    ELSE 0

\* Lines 1177-1214: the upsert into currentChanges.
UpsertChange(changes, url, now, currentOccupancy, priceType, currentPrice, adjustedPrice) ==
    LET i == FindChange(changes, url)
        pair == Price(currentPrice, adjustedPrice)
    IN IF i > 0
       THEN IF priceType = "min" THEN [changes EXCEPT ![i].minPrice = pair]
            ELSE [changes EXCEPT ![i].basePrice = pair]
       ELSE Append(changes,
                ChangeRecord(url, now, TRUE, currentOccupancy,
                             IF priceType = "min" THEN pair ELSE NoPrice,
                             IF priceType = "base" THEN pair ELSE NoPrice,
                             NoError))

\* Lines 1217-1233: the price handed back, after the floor rule.
FloorRule(stats, priceType, adjustedPrice) ==
    IF priceType = "min" /\ stats.has /\ Len(stats.priceHistory) > 0
    THEN LET minAllowedPrice == MinAllowedPrice(stats.priceHistory[1].basePrice.after)
         IN IF adjustedPrice > minAllowedPrice THEN minAllowedPrice
            ELSE adjustedPrice
    ELSE adjustedPrice

\* A variant of AdjustmentPercentage whose switch has no default case: a
\* strategy it does not know is handled as an increase.
AdjustmentPercentageNoDefault(cfg, stats, strategy, currentOccupancy, priceType, now) ==
    CASE strategy = "decrease" ->
            DecreaseBranch(cfg,
                WeightedOcc(cfg, ParseOccupancyRate(currentOccupancy.d7),
                            ParseOccupancyRate(currentOccupancy.d30),
                            ParseOccupancyRate(currentOccupancy.d60)),
                ParseOccupancyRate(currentOccupancy.d7),
                ParseOccupancyRate(currentOccupancy.d30))
      [] strategy = "hold" ->
            HoldBranch(cfg,
                WeightedOcc(cfg, ParseOccupancyRate(currentOccupancy.d7),
                            ParseOccupancyRate(currentOccupancy.d30),
                            ParseOccupancyRate(currentOccupancy.d60)),
                IF stats.has THEN stats.lastOscillationDirection ELSE NoValue,
                SevenDayIncrease(stats, priceType, now), DayOfWeek(LocalDate(now)))
      [] OTHER ->
            IncreaseBranch(cfg, ParseOccupancyRate(currentOccupancy.d7),
                           SevenDayIncrease(stats, priceType, now))

\* Lines 983-1152: adjustmentPercentage for the chosen strategy, with the
\* branch that set it ("default": the switch's default, no adjustment).
AdjustmentPercentage(cfg, stats, strategy, currentOccupancy, priceType, now) ==
    CHOOSE b \in
      {CASE strategy = "increase" ->
              IncreaseBranch(cfg, sevenDayOcc, sevenDayIncrease)
         [] strategy = "decrease" ->
              DecreaseBranch(cfg, WeightedOcc(cfg, sevenDayOcc, thirtyDayOcc, sixtyDayOcc),
                             sevenDayOcc, thirtyDayOcc)
         [] strategy = "hold" ->
              Let(WeightedOcc(cfg, sevenDayOcc, thirtyDayOcc, sixtyDayOcc),
                  LAMBDA weightedOcc :
                    HoldBranch(cfg, weightedOcc,
                               IF stats.has THEN stats.lastOscillationDirection
                               ELSE NoValue,
                               sevenDayIncrease, DayOfWeek(LocalDate(now))))
         [] OTHER -> [pct |-> Zero, branch |-> "default", storeOsc |-> FALSE]
         : sevenDayOcc \in {ParseOccupancyRate(currentOccupancy.d7)},
           thirtyDayOcc \in {ParseOccupancyRate(currentOccupancy.d30)},
           sixtyDayOcc \in {ParseOccupancyRate(currentOccupancy.d60)},
           sevenDayIncrease \in {SevenDayIncrease(stats, priceType, now)}} : TRUE

\* Lines 1125-1128 and 1161-1175: the property's stats after the call.
RecordAdjustment(stats, strategy, b, priceType, now) ==
    IF ~stats.has THEN stats
    ELSE [stats EXCEPT
            !.lastOscillationDirection = IF b.storeOsc THEN Some(b.pct) ELSE @,
            !.adjustmentHistory = Append(@,
                [date |-> now,
                 strategy |-> strategy,
                 percentChange |-> Some(b.pct),
                 minPricePercentChange |-> IF priceType = "min" THEN b.pct ELSE Zero,
                 basePricePercentChange |-> IF priceType = "base" THEN b.pct ELSE Zero])]

\* Lines 1154-1233 once strategy and adjustmentPercentage (b) are known.
Outcome(stats, changes, url, currentPrice, currentOccupancy, priceType, now, strategy, b) ==
    IF b.branch = "default"
    THEN [strategy |-> strategy, branch |-> b.branch, pct |-> Zero,
          recorded |-> FALSE, adjustedPrice |-> currentPrice,
          price |-> currentPrice, stats |-> stats, changes |-> changes]
    ELSE Let(RoundedPrice(currentPrice, b.pct),
             LAMBDA adjustedPrice :
               [strategy |-> strategy, branch |-> b.branch, pct |-> b.pct,
                recorded |-> stats.has,
                adjustedPrice |-> adjustedPrice,
                price |-> FloorRule(stats, priceType, adjustedPrice),
                stats |-> RecordAdjustment(stats, strategy, b, priceType, now),
                changes |-> IF stats.has
                            THEN UpsertChange(changes, url, now, currentOccupancy,
                                              priceType, currentPrice, adjustedPrice)
                            ELSE changes])

\* calculateAdjustedPrice as a function of the engine state and its
\* arguments: what it returns and the state it leaves.
CalculateAdjustedPrice(cfg, stats, changes, url, currentPrice, currentOccupancy, priceType, now) ==
    Let(GetPropertyStrategy(cfg, stats, currentOccupancy, now),
        LAMBDA strategy :
          Let(AdjustmentPercentage(cfg, stats, strategy, currentOccupancy,
                                   priceType, now),
              LAMBDA b : Outcome(stats, changes, url, currentPrice,
                                 currentOccupancy, priceType, now, strategy, b)))

----------------------------------------------------------------------------
(* Ledger Persister: PricingStrategy.saveChanges, src/index.js 1240-1309, and
   the bot's saveChangesToLog, 510-570 *)

\* const maxHistoryEntries = 1000 (line 537)
maxHistoryEntries == 1000

\* existingData as saveChanges reads it (1256-1281): the object in the file,
\* the first run of an array of runs, or a fresh object.
ExistingDataOfEngine(file) ==
    IF file.kind = "object" THEN file.changes
    ELSE IF file.kind = "array" /\ Len(file.runs) > 0 THEN file.runs[1].changes
    ELSE <<>>

\* The file after saveChanges (1283-1299): currentChanges in front of the
\* existing changes, written as a single object.  With an empty buffer the
\* function returns at 1248-1251; on a file holding null or a primitive line
\* 1273-1274 or 1284 throws and the catch of 1306 is reached before the write.
SaveChanges(file, changes, now) ==
    IF changes = <<>> \/ NotAnObject(file) THEN file
    ELSE ObjectFile(now, changes \o ExistingDataOfEngine(file))

\* A variant of BufferAfterSaveChanges that never clears the buffer.
BufferKeptAfterSaveChanges(changes, written) == changes

\* currentChanges after saveChanges (1303-1304): cleared once the file is
\* written, kept when the write rejected (the catch of 1306-1308).
BufferAfterSaveChanges(changes, written) ==
    IF written THEN <<>> ELSE changes

\* The backup file after saveChangesToLog whose write did not reject: written
\* by the catch of 553-567 when line 526 threw.
BackupAfterSaveChangesToLog(file, old, newChanges) ==
    IF NotAnObject(file) THEN BackupOf(newChanges) ELSE old

\* existingData.changes.slice(0, maxHistoryEntries) when longer (538-541).
Trim(changes) ==
    IF Len(changes) > maxHistoryEntries
    THEN SubSeq(changes, 1, maxHistoryEntries)
    ELSE changes

\* The file after saveChangesToLog(logFile, newChanges) (511-548).  On an
\* array of runs the function sets lastRun and changes as properties of the
\* array, which JSON.stringify leaves out: the array is written back as it was.
\* On a file holding null or a primitive line 526 throws: nothing is written.
SaveChangesToLog(file, newChanges, now) ==
    IF file.kind = "array" \/ NotAnObject(file) THEN file
    ELSE ObjectFile(now, Trim(newChanges \o (IF file.kind = "object"
                                             THEN file.changes ELSE <<>>)))

----------------------------------------------------------------------------
(* Observations *)

NoRet ==
    [op |-> "none", url |-> "", priceType |-> "", currentPrice |-> 0,
     occupancy |-> NoOccupancy, strategy |-> "", branch |-> "", pct |-> Zero,
     adjustedPrice |-> 0, price |-> 0, recorded |-> FALSE,
     raw |-> RawUndefined, out |-> Zero,
     newChanges |-> <<>>, writeFailed |-> FALSE,
     minCall |-> [strategy |-> "", branch |-> "", pct |-> Zero, price |-> 0]]

----------------------------------------------------------------------------
(* Inputs *)

\* The day the process runs on: day 17 is a Wednesday (17 % 7 = 3).
Weekday == 17

\* Occupancy readings handed to the engine: decimals as runBot scrapes them
\* (index.js 200-205), null where the page shows N/A.
OccHigh == Occ(RawNum(D0_96), RawNum(D0_9), RawNum(D0_9))

OccMid == Occ(RawNum(D0_6), RawNum(D0_6), RawNum(D0_6))

OccLow == Occ(RawNull, RawNull, RawNull)

OccReadings == {OccHigh, OccMid, OccLow}

CurrentPrices == {100}

\* Ledger records of earlier runs.  "decrease": both prices of p1 lowered by
\* 2%; "increase": both prices of p1 raised by 2%; "baseOnly": a record the
\* engine wrote for p1 in a run whose min-price step failed (only the "base"
\* call was made, lines 1194-1211); "other": a record of p2, both prices
\* raised by 1%, occupancy kept as percentage strings.  A fifth kind of
\* record, "slight", is part of the replayed ledgers only: both prices of p1
\* raised from 992 to 997, which is 0.5040322580645161%.  "error" and
\* "emptyError" are the records runBot pushes for a property that failed
\* (492-496), with a message and with the empty string for message.
LedgerKinds == {"decrease", "increase", "baseOnly", "other"}

LedgerRecord(kind, d) ==
    CASE kind = "decrease" ->
            ChangeRecord("p1", d, TRUE,
                         Occ(RawNum(D0_3), RawNum(D0_3), RawNum(D0_3)),
                         Price(100, 98), Price(200, 196), NoError)
      [] kind = "increase" ->
            ChangeRecord("p1", d, TRUE,
                         Occ(RawNum(D0_9), RawNum(D0_9), RawNum(D0_9)),
                         Price(100, 102), Price(100, 102), NoError)
      [] kind = "baseOnly" ->
            ChangeRecord("p1", d, TRUE, Occ(RawNull, RawNull, RawNull),
                         NoPrice, Price(100, 101), NoError)
      [] kind = "other" ->
            ChangeRecord("p2", d, TRUE,
                         Occ(RawStr(<<"5", "0", "%">>), RawStr(<<"5", "0", "%">>),
                             RawStr(<<"5", "0", "%">>)),
                         Price(100, 101), Price(200, 202), NoError)
      [] kind = "slight" ->
            ChangeRecord("p1", d, TRUE,
                         Occ(RawNum(D0_3), RawNum(D0_5), RawNum(D0_7)),
                         Price(992, 997), Price(992, 997), NoError)
      [] kind = "emptyError" ->
            ChangeRecord("p1", d, FALSE, NoOccupancy, NoPrice, NoPrice,
                         EmptyMessage)
      [] OTHER ->
            ChangeRecord("p1", d, FALSE, NoOccupancy, NoPrice, NoPrice, Message)

\* The i-th record of a ledger (most recent first) is of the run made
\* 3i - 2 days before today: 1, 4, 7, 10 days ago.
LedgerDate(i, now) == now - (3 * i - 2)

KindSeqs(n) == UNION {[1..k -> LedgerKinds] : k \in 0..n}

LedgerOf(kinds, now) == [i \in 1..Len(kinds) |-> LedgerRecord(kinds[i], LedgerDate(i, now))]

Ledgers(n, now) == {LedgerOf(ks, now) : ks \in KindSeqs(n)}

----------------------------------------------------------------------------
(* Actions of the engine *)

\* new PricingStrategy(), index.js 637-642, with the files as the process
\* finds them.
Constructed ==
    /\ phase = "constructed"
    /\ propertyStats = [u \in Props |-> NoStats]
    /\ currentChanges = <<>>
    /\ calls = 0
    /\ backup = NoBackup
    /\ applied = [u \in Props |-> [t \in PriceTypes |-> Zero]]
    /\ bot = [NoBot EXCEPT !.today = today]
    /\ previous = NoPrevious
    /\ retryState = NoRetry
    /\ logs = <<>>
    /\ ret = NoRet

\* What a call of initialize(config), index.js 648-673, does to the engine,
\* whatever the engine holds when it is made.
InitializeCall ==
    /\ phase' = "ready"
    /\ logs' = LogsAfterInitialize(disk, logs)
    /\ propertyStats' = StatsAfterInitialize(disk, propertyStats, logs)
    /\ ret' = [NoRet EXCEPT !.op = "initialize"]
    /\ UNCHANGED <<config, today, disk, currentChanges, backup, applied, bot,
                   previous, retryState, zone, clock>>

\* The call of initialize the process makes on the engine it has constructed.
Initialize ==
    /\ phase = "constructed"
    /\ InitializeCall
    /\ UNCHANGED calls

\* A call of initialize on an engine that has been initialized before.
InitializeAgain ==
    /\ phase = "ready"
    /\ calls < MaxCalls
    /\ calls' = calls + 1
    /\ InitializeCall

\* analyzeHistoricalData(), index.js 692-765, called on its own.
AnalyzeAgain ==
    /\ phase = "ready"
    /\ calls < MaxCalls
    /\ calls' = calls + 1
    /\ propertyStats' = AnalyzeHistoricalData(propertyStats, logs)
    /\ ret' = [NoRet EXCEPT !.op = "analyze"]
    /\ UNCHANGED <<config, today, disk, phase, currentChanges, backup, applied,
                   bot, previous, retryState, logs, zone, clock>>

\* calculateAdjustedPrice(propertyUrl, currentPrice, currentOccupancy, priceType)
Adjust(url, currentPrice, currentOccupancy, priceType) ==
    /\ phase = "ready"
    /\ calls < MaxCalls
    /\ \E r \in {CalculateAdjustedPrice(config, propertyStats[url], currentChanges,
                                       url, currentPrice, currentOccupancy,
                                       priceType, today)} :
          /\ propertyStats' = [propertyStats EXCEPT ![url] = r.stats]
          /\ currentChanges' = r.changes
          /\ applied' = [applied EXCEPT ![url][priceType] = FAdd(@, FMax(Zero, r.pct))]
          /\ ret' = [NoRet EXCEPT !.op = "adjust", !.url = url,
                                  !.priceType = priceType,
                                  !.currentPrice = currentPrice,
                                  !.occupancy = currentOccupancy,
                                  !.strategy = r.strategy, !.branch = r.branch,
                                  !.pct = r.pct,
                                  !.adjustedPrice = r.adjustedPrice,
                                  !.price = r.price, !.recorded = r.recorded]
    /\ calls' = calls + 1
    /\ UNCHANGED <<config, today, disk, phase, backup, bot, previous, retryState, logs, zone, clock>>

AdjustAny ==
    \E url \in Props, currentPrice \in CurrentPrices,
       currentOccupancy \in OccReadings, priceType \in PriceTypes :
        Adjust(url, currentPrice, currentOccupancy, priceType)

----------------------------------------------------------------------------
(* The engine driven through its API, started on a ledger of earlier runs *)

Init ==
    /\ config = ReadmeConfig
    /\ today = Weekday
    /\ zone = 0
    /\ clock \in {OrdinaryClock, MidnightClock, ClocksBackClock}
    /\ disk \in {MissingFile} \cup
                {ObjectFile(today - 1, l) : l \in Ledgers(MaxLedgerLen, today) \ {<<>>}}
    /\ Constructed

Next == Initialize \/ AdjustAny

Spec == Init /\ [][Next]_vars

----------------------------------------------------------------------------
(* The engine under other configurations and on a weekend *)

\* Day 20 is a Saturday (20 % 7 = 6).
Saturday == 20

ShortLedgerLen == 1

\* config.json with decrease.percentage 80, and with a strategy name the
\* engine does not know.
SteepDecreaseConfig == [ReadmeConfig EXCEPT !.decrease = D80]

UnknownStrategyConfig == [ReadmeConfig EXCEPT !.strategy = "auto"]

Configs == {ReadmeConfig, SteepDecreaseConfig, UnknownStrategyConfig}

\* config.json with increase.percentage 2.33.
FineIncreaseConfig == [ReadmeConfig EXCEPT !.increase = D2_33]

InitConfigs ==
    /\ config \in Configs
    /\ today \in {Weekday, Saturday}
    /\ zone \in Zones
    /\ clock = OrdinaryClock
    /\ disk \in {MissingFile} \cup
                {ObjectFile(today - 1, l) : l \in Ledgers(ShortLedgerLen, today) \ {<<>>}}
    /\ Constructed

SpecConfigs == InitConfigs /\ [][Next]_vars

----------------------------------------------------------------------------
(* One call of the calculator over a wider range of occupancy readings *)

MaxCalcCalls == 1

\* Readings on either side of each comparison of getPropertyStrategy and
\* calculateAdjustedPrice.
OccExample == Occ(RawNum(D0_9), RawNum(D0_8), RawNum(D0_75))

OccAtVeryHigh == Occ(RawNum(D0_95), RawNum(D0_9), RawNum(D0_9))

OccAtHigh == Occ(RawNum(D0_85), RawNum(D0_85), RawNum(D0_85))

OccGood == Occ(RawNum(D0_75), RawNum(D0_75), RawNum(D0_75))

OccMixed == Occ(RawNum(D0_5), RawNum(D0_2), RawNum(D0_2))

OccWeak == Occ(RawNum(D0_35), RawNum(D0_3), RawNum(D0_3))

OccVeryLow == Occ(RawNum(D0_25), RawNum(D0_3), RawNum(D0_3))

OccCritical == Occ(RawNum(D0_15), RawNum(D0_15), RawNum(D0_15))

\* Readings whose weighted occupancy, as the doubles add up, falls just below
\* a threshold: 0.39999999999999997 (low is 0.4), 0.19999999999999998
\* (critical is 0.2) and 0.44999999999999996 (the 0.45 of line 934).
OccBelowLow == Occ(RawNum(D0_3), RawNum(D0_5), RawNum(D0_7))

OccBelowCritical == Occ(RawNum(D0_2), RawNum(D0_15), RawNum(D0_35))

OccBelowFair == Occ(RawNum(D0_4), RawNum(D0_6), RawNum(D0_3))

CalcOccReadings ==
    OccReadings \cup {OccExample, OccAtVeryHigh, OccAtHigh, OccGood, OccMixed,
                      OccWeak, OccVeryLow, OccCritical, OccBelowLow,
                      OccBelowCritical, OccBelowFair}

CalcPrices == {100, 150, 10000}

AdjustCalc(currentPrice, currentOccupancy, priceType) ==
    /\ calls < MaxCalcCalls
    /\ Adjust("p1", currentPrice, currentOccupancy, priceType)

AdjustCalcAny ==
    \E currentPrice \in CalcPrices, currentOccupancy \in CalcOccReadings,
       priceType \in PriceTypes :
        AdjustCalc(currentPrice, currentOccupancy, priceType)

InitCalc ==
    /\ config \in Configs \cup {FineIncreaseConfig}
    /\ today = Weekday
    /\ zone = 0
    /\ clock = OrdinaryClock
    /\ disk \in {MissingFile} \cup
                {ObjectFile(today - 1, l) :
                    l \in Ledgers(ShortLedgerLen + 1, today) \ {<<>>}}
    /\ Constructed

NextCalc == Initialize \/ AdjustCalcAny

SpecCalc == InitCalc /\ [][NextCalc]_vars

----------------------------------------------------------------------------
(* The engine and the bot's ledger writer, started on ledgers up to the
   history limit *)

\* pricingStrategy.saveChanges(), index.js 575, every write succeeding.
SaveChangesCall ==
    /\ phase = "ready"
    /\ calls < MaxCalls
    /\ disk' = SaveChanges(disk, currentChanges, today)
    /\ currentChanges' = BufferAfterSaveChanges(currentChanges, ~NotAnObject(disk))
    /\ ret' = [NoRet EXCEPT !.op = "saveChanges", !.newChanges = currentChanges]
    /\ calls' = calls + 1
    /\ UNCHANGED <<config, today, phase, propertyStats, backup, applied, bot,
                   previous, retryState, logs, zone, clock>>

\* pricingStrategy.saveChanges() when fs.writeFile of line 1295 rejects (the
\* file is left as it was): control passes to the catch of lines 1306-1308.
SaveChangesWriteFails ==
    /\ phase = "ready"
    /\ calls < MaxCalls
    /\ currentChanges # <<>>
    /\ ~NotAnObject(disk)
    /\ currentChanges' = BufferAfterSaveChanges(currentChanges, FALSE)
    /\ ret' = [NoRet EXCEPT !.op = "saveChanges", !.newChanges = currentChanges,
                            !.writeFailed = TRUE]
    /\ calls' = calls + 1
    /\ UNCHANGED <<config, today, disk, phase, propertyStats, backup, applied, bot,
                   previous, retryState, logs, zone, clock>>

\* Changes the bot recorded itself in this run (index.js 460-472, 492-496).
BotChanges ==
    {<<>>,
     <<LedgerRecord("increase", Weekday)>>,
     <<LedgerRecord("error", Weekday), LedgerRecord("other", Weekday)>>}

\* saveChangesToLog(config.logFile, changes), index.js 583, every write
\* succeeding.  lastRun is the constant `today` of line 43 (526): the UTC
\* date on which the process was loaded.
SaveChangesToLogCall(newChanges) ==
    /\ phase = "ready"
    /\ calls < MaxCalls
    /\ disk' = SaveChangesToLog(disk, newChanges, bot.today)
    /\ backup' = BackupAfterSaveChangesToLog(disk, backup, newChanges)
    /\ ret' = [NoRet EXCEPT !.op = "saveChangesToLog", !.newChanges = newChanges]
    /\ calls' = calls + 1
    /\ UNCHANGED <<config, today, phase, propertyStats, currentChanges, applied, bot,
                   previous, retryState, logs, zone, clock>>

\* saveChangesToLog when fs.writeFile of line 544 rejects (the file is left as
\* it was): the catch of lines 553-567 writes the backup file.
SaveChangesToLogWriteFails(newChanges) ==
    /\ phase = "ready"
    /\ calls < MaxCalls
    /\ ~NotAnObject(disk)
    /\ backup' = BackupOf(newChanges)
    /\ ret' = [NoRet EXCEPT !.op = "saveChangesToLog", !.newChanges = newChanges,
                            !.writeFailed = TRUE]
    /\ calls' = calls + 1
    /\ UNCHANGED <<config, today, disk, phase, propertyStats, currentChanges,
                   applied, bot, previous, retryState, logs, zone, clock>>

\* saveChangesToLog when the catch of lines 553-567 is reached (line 526
\* threw, or fs.writeFile of line 544 rejected) and the write of the backup
\* file rejects as well: the catch of 562-566 logs the error, neither file is
\* written.
SaveChangesToLogBackupFails(newChanges) ==
    /\ phase = "ready"
    /\ calls < MaxCalls
    /\ ret' = [NoRet EXCEPT !.op = "saveChangesToLog", !.newChanges = newChanges,
                            !.writeFailed = TRUE]
    /\ calls' = calls + 1
    /\ UNCHANGED <<config, today, disk, phase, propertyStats, currentChanges,
                   backup, applied, bot, previous, retryState, logs, zone, clock>>

\* The UTC date changes between two operations of the process: it was
\* loaded on one date (line 43) and goes on in the first second of the next.
DateChanges ==
    /\ phase = "ready"
    /\ today = bot.today
    /\ today' = today + 1
    /\ clock' = FirstSecondClock
    /\ ret' = [NoRet EXCEPT !.op = "midnight"]
    /\ UNCHANGED <<config, disk, phase, propertyStats, currentChanges, calls,
                   backup, applied, bot, previous, retryState, logs, zone>>

\* A ledger at the history limit: a record of p1 from yesterday in front of
\* records of p2.
FullLedger(now) ==
    [i \in 1..maxHistoryEntries |->
        LedgerRecord(IF i = 1 THEN "decrease" ELSE "other", now - i)]

InitLedger ==
    /\ config = ReadmeConfig
    /\ today = Weekday
    /\ zone = 0
    /\ clock = OrdinaryClock
    /\ disk \in {MissingFile, InvalidFile, NullFile, PrimitiveFile, BareObjectFile,
                 ArrayFile(<<>>), ObjectFile(today - 1, FullLedger(today)),
                 ArrayFile(<<[lastRun |-> today - 1,
                              changes |-> LedgerOf(<<"increase">>, today)],
                             [lastRun |-> today - 4,
                              changes |-> LedgerOf(<<"other">>, today - 3)]>>),
                 ArrayFile(<<[lastRun |-> today - 1,
                              changes |-> LedgerOf(<<"increase", "decrease">>,
                                                   today)],
                             [lastRun |-> today - 7,
                              changes |-> LedgerOf(<<"decrease", "other">>,
                                                   today - 6)]>>)}
                \cup {ObjectFile(today - 1, l) : l \in Ledgers(1, today) \ {<<>>}}
    /\ Constructed

NextLedger ==
    \/ Initialize
    \/ AdjustAny
    \/ SaveChangesCall
    \/ \E newChanges \in BotChanges : SaveChangesToLogCall(newChanges)
    \/ SaveChangesWriteFails
    \/ \E newChanges \in BotChanges : SaveChangesToLogWriteFails(newChanges)
    \/ \E newChanges \in BotChanges : SaveChangesToLogBackupFails(newChanges)
    \/ DateChanges

SpecLedger == InitLedger /\ [][NextLedger]_vars

----------------------------------------------------------------------------
(* One run of the bot: runBot, src/index.js 103-621 *)

\* The property links runBot extracts from the table (146-165).
PropertyLinks == <<"p1", "p2">>

\* The min and base price the property page shows (247-250, 328-331).
PagePrices == {[min |-> 80, base |-> 100], [min |-> 10, base |-> 100]}

\* puppeteer.launch rejects (line 107).  The call is made before the try of
\* line 113: neither the catch of 601 nor the finally of 617 runs, runBot
\* rejects (line 624 logs the error) and there is no browser to close.
LaunchFails ==
    /\ phase = "ready"
    /\ bot.pc = "idle"
    /\ bot' = [bot EXCEPT !.pc = "crashed"]
    /\ ret' = [NoRet EXCEPT !.op = "launchFailed"]
    /\ UNCHANGED <<config, today, disk, phase, propertyStats, currentChanges,
                   calls, backup, applied, previous, retryState, logs, zone, clock>>

\* Lines 103-167: the browser is launched, the bot logs in and extracts the
\* property links; the loop of line 170 is about to start.
StartRun ==
    /\ phase = "ready"
    /\ bot.pc = "idle"
    /\ bot' = [bot EXCEPT !.pc = "loop", !.i = 1, !.browser = "open"]
    /\ ret' = [NoRet EXCEPT !.op = "startRun"]
    /\ UNCHANGED <<config, today, disk, phase, propertyStats, currentChanges,
                   calls, backup, applied, previous, retryState, logs, zone, clock>>

\* The browser is launched and a step of the try before the loop fails
\* (113-167: the new page, the login or the extraction of the links, after
\* the attempts of retry): the catch of 601-616 finds `changes` empty and
\* writes nothing, the finally of 617-620 closes the browser.
StartRunFails ==
    /\ phase = "ready"
    /\ bot.pc = "idle"
    /\ bot' = [bot EXCEPT !.pc = "aborted", !.browser = "closed"]
    /\ ret' = [NoRet EXCEPT !.op = "startFailed"]
    /\ UNCHANGED <<config, today, disk, phase, propertyStats, currentChanges,
                   calls, backup, applied, previous, retryState, logs, zone, clock>>

\* runBot after the catch of 601-616 and the finally of 617-620: the bot's
\* changes, if any, go to <logFile>.partial unless that write rejects too
\* (613-615 logs it), and the browser is closed.
Aborted(b, partialWritten) ==
    [b EXCEPT !.pc = "aborted",
              !.partial = (b.changes # <<>>) /\ partialWritten,
              !.browser = "closed"]

\* runBot after the catch of 489-497 and the i++ of line 170, what was thrown
\* being any value but null and undefined and `message` its error.message:
\* a record {url, date, error: message} of the property is pushed and the
\* loop goes on.
AfterPropertyFailure(b, url, now, message) ==
    [b EXCEPT !.i = @ + 1,
              !.changes = Append(@, ChangeRecord(url, now, FALSE, NoOccupancy,
                                                 NoPrice, NoPrice, message))]

\* The prices the min and the base price block read off the page (247-250,
\* 328-331): absent when the input does not show up and waitForSelector
\* rejects (243-246, 324-327).
MinReads == {NoValue} \cup {Some(prices.min) : prices \in PagePrices}

BaseReads == {NoValue} \cup {Some(prices.base) : prices \in PagePrices}

\* The min (241-316) or the base (322-398) price block: the price read is
\* handed to the engine (253, 334); when it could not be read the catch of
\* 314-316 (396-398) is taken before the engine is called, and both the price
\* and the new price stay 0 (239-240, 320-321).  A failure to type the new
\* price into the page comes after the call and changes nothing of this.
PriceBlock(cfg, stats, changes, url, read, occupancyRates, priceType, now) ==
    IF read.has
    THEN CalculateAdjustedPrice(cfg, stats, changes, url, read.v, occupancyRates,
                                priceType, now)
    ELSE [strategy |-> "", branch |-> "", pct |-> Zero, recorded |-> FALSE,
          adjustedPrice |-> 0, price |-> 0, stats |-> stats, changes |-> changes]

\* `price` as the block leaves it.
PriceRead(read) == IF read.has THEN read.v ELSE 0

\* The else branch of 309-313 (390-394) was taken: the engine gave the price
\* back unchanged.
PriceUnchanged(read, r) == read.has /\ r.price = read.v

\* runBot after the push of 460-472 and the i++ of line 170.  The record is
\* dated by the constant `today` of line 43.
AfterPropertySaved(b, url, occupancyRates, minRead, r1, baseRead, r2) ==
    [b EXCEPT !.i = @ + 1,
              !.hasUiOnlyChanges =
                  @ \/ PriceUnchanged(minRead, r1) \/ PriceUnchanged(baseRead, r2),
              !.changes = Append(@,
                  ChangeRecord(url, b.today, TRUE, occupancyRates,
                               Price(PriceRead(minRead), r1.price),
                               Price(PriceRead(baseRead), r2.price), NoError))]

\* runBot after the push of 460-472 and a second save (475-483) that rejects
\* with null or undefined: the catch of 484-486 throws a TypeError at line
\* 485 (error.message), which the catch of 489-497 records: the property has
\* two entries in `changes`, and the loop goes on.
AfterSecondSaveUnreadable(b, url, occupancyRates, minRead, r1, baseRead, r2) ==
    [AfterPropertySaved(b, url, occupancyRates, minRead, r1, baseRead, r2) EXCEPT
        !.changes = Append(@, ChangeRecord(url, b.today, FALSE, NoOccupancy,
                                           NoPrice, NoPrice, Message))]

\* minPrice !== newMinPrice || basePrice !== newBasePrice (line 475): the
\* second save is attempted.
SecondSaveAttempted(minRead, r1, baseRead, r2) ==
    PriceRead(minRead) # r1.price \/ PriceRead(baseRead) # r2.price

\* runBot after both price blocks and a failure of the steps that follow
\* them inside the same try (the save button, the modals, 399-453): the catch
\* of 489-497 pushes an error record, hasUiOnlyChanges is as the blocks left it.
AfterSaveFailure(b, url, minRead, r1, baseRead, r2, message) ==
    [AfterPropertyFailure(b, url, b.today, message) EXCEPT
        !.hasUiOnlyChanges =
            @ \/ PriceUnchanged(minRead, r1) \/ PriceUnchanged(baseRead, r2)]

\* One iteration of the loop (170-501) that gets as far as the price blocks:
\* the min price and then the base price block run, each calling the engine
\* with the clock at that moment (`midnight`: the UTC date changes between
\* the two calls, so the second call is made on the next date, in its first
\* second); then either the page is saved and the bot pushes its record of
\* the property (`end` is "saved"), or a step of 399-453 fails: with a value
\* whose error.message is `message` ("failed"), which the catch of 489-497
\* records, or with null or undefined
\* ("unreadable"), on which the catch itself throws a TypeError at line 490
\* (error.message), nothing is pushed and the run is aborted; or the record
\* is pushed and the second save rejects with null or undefined
\* ("savedUnreadable").  A second save that rejects with an Error is logged
\* (484-486) and changes nothing.
Iteration(occupancyRates, minRead, baseRead, midnight, end, message, partialWritten) ==
    /\ bot.pc = "loop"
    /\ bot.i <= Len(PropertyLinks)
    /\ midnight => today = bot.today /\ clock = LastSecondClock
    /\ today' = IF midnight THEN today + 1 ELSE today
    /\ clock' = IF midnight THEN FirstSecondClock ELSE clock
    /\ \E url \in {PropertyLinks[bot.i]} :
        \E r1 \in {PriceBlock(config, propertyStats[url], currentChanges, url,
                              minRead, occupancyRates, "min", today)} :
        \E r2 \in {PriceBlock(config, r1.stats, r1.changes, url, baseRead,
                              occupancyRates, "base", today')} :
          /\ propertyStats' = [propertyStats EXCEPT ![url] = r2.stats]
          /\ currentChanges' = r2.changes
          /\ applied' = [applied EXCEPT ![url]["min"] = FAdd(@, FMax(Zero, r1.pct)),
                                        ![url]["base"] = FAdd(@, FMax(Zero, r2.pct))]
          /\ end = "savedUnreadable" => SecondSaveAttempted(minRead, r1, baseRead, r2)
          /\ bot' = IF end = "saved"
                    THEN AfterPropertySaved(bot, url, occupancyRates, minRead, r1,
                                            baseRead, r2)
                    ELSE IF end = "savedUnreadable"
                    THEN AfterSecondSaveUnreadable(bot, url, occupancyRates,
                                                   minRead, r1, baseRead, r2)
                    ELSE IF end = "failed"
                    THEN AfterSaveFailure(bot, url, minRead, r1, baseRead, r2,
                                          message)
                    ELSE Aborted([bot EXCEPT
                                     !.hasUiOnlyChanges =
                                         @ \/ PriceUnchanged(minRead, r1)
                                           \/ PriceUnchanged(baseRead, r2)],
                                 partialWritten)
          /\ ret' = [NoRet EXCEPT !.op = IF end = "saved" THEN "process"
                                                          ELSE "processFailed",
                                  !.url = url,
                                  !.occupancy = occupancyRates,
                                  !.minCall = [strategy |-> r1.strategy,
                                               branch |-> r1.branch,
                                               pct |-> r1.pct, price |-> r1.price],
                                  !.priceType = "base",
                                  !.currentPrice = PriceRead(baseRead),
                                  !.strategy = r2.strategy, !.branch = r2.branch,
                                  !.pct = r2.pct,
                                  !.adjustedPrice = r2.adjustedPrice,
                                  !.price = r2.price, !.recorded = r2.recorded]
    /\ calls' = calls + (IF minRead.has THEN 1 ELSE 0)
                      + (IF baseRead.has THEN 1 ELSE 0)
    /\ UNCHANGED <<config, disk, phase, backup, previous, retryState, logs, zone>>

\* An iteration in which the page is saved (460-472 is reached).
ProcessProperty(occupancyRates, minRead, baseRead, midnight) ==
    Iteration(occupancyRates, minRead, baseRead, midnight, "saved", NoError,
              TRUE)

\* An iteration in which a step after the price blocks fails (399-453) with
\* a value whose error.message is `message`.
ProcessPropertySaveFails(occupancyRates, minRead, baseRead, midnight, message) ==
    Iteration(occupancyRates, minRead, baseRead, midnight, "failed", message,
              TRUE)

\* An iteration in which a step after the price blocks rejects with null or
\* undefined.
ProcessPropertySaveFailsUnreadable(occupancyRates, minRead, baseRead, partialWritten) ==
    Iteration(occupancyRates, minRead, baseRead, FALSE, "unreadable", NoError,
              partialWritten)

\* An iteration in which the second save rejects with null or undefined.
ProcessPropertySecondSaveUnreadable(occupancyRates, minRead, baseRead) ==
    Iteration(occupancyRates, minRead, baseRead, FALSE, "savedUnreadable",
              Message, TRUE)

\* An iteration in which the pause after the navigation (line 183, a
\* page.evaluate awaited in the try of 176 itself) rejects with null or
\* undefined: the catch of 489-497 throws at line 490, no record is pushed,
\* the engine is not called and the run is aborted.
ProcessPropertyFailsUnreadable(partialWritten) ==
    /\ bot.pc = "loop"
    /\ bot.i <= Len(PropertyLinks)
    /\ bot' = Aborted(bot, partialWritten)
    /\ ret' = [NoRet EXCEPT !.op = "processFailed", !.url = PropertyLinks[bot.i]]
    /\ UNCHANGED <<config, today, disk, phase, propertyStats, currentChanges,
                   calls, backup, applied, previous, retryState, logs, zone, clock>>

\* An iteration in which a step before the price blocks fails: the
\* navigation to the property page (177-182), retry throwing what the last
\* attempt rejected with, or a TypeError when an attempt rejected with null
\* or undefined; or the pause of line 183.  The catch of 489-497 pushes a
\* record with error.message of what was thrown; the engine is not called.
ProcessPropertyFails(message) ==
    /\ bot.pc = "loop"
    /\ bot.i <= Len(PropertyLinks)
    /\ bot' = AfterPropertyFailure(bot, PropertyLinks[bot.i], bot.today, message)
    /\ ret' = [NoRet EXCEPT !.op = "processFailed", !.url = PropertyLinks[bot.i]]
    /\ UNCHANGED <<config, today, disk, phase, propertyStats, currentChanges,
                   calls, backup, applied, previous, retryState, logs, zone, clock>>

\* The UTC date changes while the run waits between two steps of the loop
\* (the waits of lines 182 and 500): a run that was in the last second of
\* its day is in the first second of the next.
Midnight ==
    /\ bot.pc = "loop"
    /\ today = bot.today
    /\ clock = LastSecondClock
    /\ today' = today + 1
    /\ clock' = FirstSecondClock
    /\ ret' = [NoRet EXCEPT !.op = "midnight"]
    /\ UNCHANGED <<config, disk, phase, propertyStats, currentChanges, calls,
                   backup, applied, bot, previous, retryState, logs, zone>>

\* The run aborts after an iteration: the pause of line 500, a page.evaluate
\* outside the try of 176-488, rejects (the page has crashed or the browser
\* is gone).  The catch of 601-616 writes the bot's changes to
\* <logFile>.partial unless that write rejects, and the finally of 617-620
\* closes the browser.
AbortRun(partialWritten) ==
    /\ bot.pc = "loop"
    /\ bot.i > 1
    /\ bot' = Aborted(bot, partialWritten)
    /\ ret' = [NoRet EXCEPT !.op = "abort"]
    /\ UNCHANGED <<config, today, disk, phase, propertyStats, currentChanges,
                   calls, backup, applied, previous, retryState, logs, zone, clock>>

\* Line 582: whether saveChangesToLog is called, `file` being the ledger as
\* saveChanges left it.
CallsSaveChangesToLog(file, changes, hasUiOnlyChanges) ==
    (hasUiOnlyChanges /\ Len(changes) > 0) \/ file.kind = "missing"

\* saveChanges gets as far as fs.writeFile (1295).
EngineWriteAttempted(file, engineChanges) ==
    engineChanges # <<>> /\ ~NotAnObject(file)

\* Lines 573-590, after the last property: saveChanges of the engine, then
\* saveChangesToLog with the bot's changes when line 582 says so; the finally
\* of 617-620 closes the browser.  engineWritten, botWritten and
\* backupWritten say whether fs.writeFile resolves at line 1295, at line 544
\* and at line 558, where the call is reached.  When the write of 1295
\* rejects, saveChanges leaves the file and its buffer as they were
\* (1306-1308); when the write of 544 rejects, saveChangesToLog leaves the
\* file as it was and writes the backup file (553-567).
SaveLogsCall(engineWritten, botWritten, backupWritten) ==
    /\ bot.pc = "loop"
    /\ bot.i > Len(PropertyLinks)
    /\ \E saved \in {IF engineWritten THEN SaveChanges(disk, currentChanges, today)
                      ELSE disk} :
       \E called \in {CallsSaveChangesToLog(saved, bot.changes,
                                            bot.hasUiOnlyChanges)} :
          /\ ~engineWritten => EngineWriteAttempted(disk, currentChanges)
          /\ ~botWritten => (called /\ ~NotAnObject(saved))
          /\ ~backupWritten => (called /\ (NotAnObject(saved) \/ ~botWritten))
          /\ disk' = IF called /\ botWritten
                     THEN SaveChangesToLog(saved, bot.changes, bot.today)
                     ELSE saved
          /\ backup' = IF called /\ (NotAnObject(saved) \/ ~botWritten)
                                 /\ backupWritten
                       THEN BackupOf(bot.changes)
                       ELSE backup
          /\ bot' = [bot EXCEPT
                       !.pc = "done",
                       !.browser = "closed",
                       !.writes =
                           (IF engineWritten
                               /\ EngineWriteAttempted(disk, currentChanges)
                            THEN 1 ELSE 0)
                           + (IF called /\ botWritten /\ ~NotAnObject(saved)
                              THEN 1 ELSE 0)]
    /\ currentChanges' =
          BufferAfterSaveChanges(currentChanges,
                                 engineWritten /\ ~NotAnObject(disk))
    /\ ret' = [NoRet EXCEPT !.op = "saveLogs", !.newChanges = bot.changes,
                            !.writeFailed = ~(engineWritten /\ botWritten
                                                /\ backupWritten)]
    /\ UNCHANGED <<config, today, phase, propertyStats, calls, applied,
                   previous, retryState, logs, zone, clock>>

\* The end of a run in which every write made resolves.
SaveLogs == SaveLogsCall(TRUE, TRUE, TRUE)

\* The end of a run in which a write rejects.
SaveLogsWriteFails(engineWritten, botWritten, backupWritten) ==
    /\ ~(engineWritten /\ botWritten /\ backupWritten)
    /\ SaveLogsCall(engineWritten, botWritten, backupWritten)

\* The ledgers a run starts on: none, or one record of the run of the day
\* before: of a property whose page failed, or of a base price written by
\* the engine.  The process is loaded in the last second of a UTC day: the
\* date can change before any step of the run.
RunLedgerKinds == {"error", "baseOnly"}

InitRun ==
    /\ config = ReadmeConfig
    /\ today = Weekday
    /\ zone = 0
    /\ clock = LastSecondClock
    /\ disk \in {MissingFile}
                \cup {ObjectFile(today - 1, LedgerOf(<<kind>>, today)) :
                         kind \in RunLedgerKinds}
    /\ Constructed

NextRun ==
    \/ Initialize
    \/ StartRun
    \/ LaunchFails
    \/ StartRunFails
    \/ \E occupancyRates \in OccReadings, minRead \in MinReads,
          baseRead \in BaseReads, midnight \in BOOLEAN :
          ProcessProperty(occupancyRates, minRead, baseRead, midnight)
    \/ \E occupancyRates \in OccReadings, minRead \in MinReads,
          baseRead \in BaseReads, midnight \in BOOLEAN :
          ProcessPropertySaveFails(occupancyRates, minRead, baseRead, midnight,
                                   Message)
    \/ \E occupancyRates \in OccReadings, prices \in PagePrices,
          message \in {NoError, EmptyMessage} :
          ProcessPropertySaveFails(occupancyRates, Some(prices.min),
                                   Some(prices.base), FALSE, message)
    \/ \E occupancyRates \in OccReadings, prices \in PagePrices,
          partialWritten \in BOOLEAN :
          ProcessPropertySaveFailsUnreadable(occupancyRates, Some(prices.min),
                                             Some(prices.base), partialWritten)
    \/ \E occupancyRates \in OccReadings, prices \in PagePrices :
          ProcessPropertySecondSaveUnreadable(occupancyRates, Some(prices.min),
                                              Some(prices.base))
    \/ \E message \in ErrorMessages : ProcessPropertyFails(message)
    \/ \E partialWritten \in BOOLEAN : ProcessPropertyFailsUnreadable(partialWritten)
    \/ Midnight
    \/ \E partialWritten \in BOOLEAN : AbortRun(partialWritten)
    \/ SaveLogs
    \/ \E engineWritten, botWritten, backupWritten \in BOOLEAN :
          SaveLogsWriteFails(engineWritten, botWritten, backupWritten)

SpecRun == InitRun /\ [][NextRun]_vars

----------------------------------------------------------------------------
(* Two processes in a row: a run of the bot, then a new process that
   initializes the engine from the ledger the first one left *)

\* 7-day occupancy above thresholds.high with weighted occupancy inside
\* [low, high].
OccHighMixed == Occ(RawNum(D0_96), RawNum(D0_5), RawNum(D0_5))

RestartReadings == {OccMid, OccHighMixed}

\* The process ends after its run (line 624) and the next one starts:
\* `changes`, hasUiOnlyChanges and the engine are created anew (42, 47, 50,
\* 637-642), on the same day.
Restart ==
    /\ bot.pc = "done"
    /\ ~previous.has
    /\ previous' = [has |-> TRUE, stats |-> propertyStats]
    /\ phase' = "constructed"
    /\ propertyStats' = [u \in Props |-> NoStats]
    /\ currentChanges' = <<>>
    /\ calls' = 0
    /\ applied' = [u \in Props |-> [t \in PriceTypes |-> Zero]]
    /\ bot' = [NoBot EXCEPT !.today = today]
    /\ logs' = <<>>
    /\ ret' = [NoRet EXCEPT !.op = "restart"]
    /\ UNCHANGED <<config, today, disk, backup, retryState, zone, clock>>

InitRestart ==
    /\ config = ReadmeConfig
    /\ today = Weekday
    /\ zone = 0
    /\ clock = OrdinaryClock
    /\ disk \in {MissingFile}
                \cup {ObjectFile(today - 1, l) : l \in Ledgers(1, today) \ {<<>>}}
    /\ Constructed

NextRestart ==
    \/ Initialize
    \/ StartRun
    \/ \E occupancyRates \in RestartReadings, prices \in PagePrices :
          ProcessProperty(occupancyRates, Some(prices.min), Some(prices.base),
                          FALSE)
    \/ SaveLogs
    \/ Restart

SpecRestart == InitRestart /\ [][NextRestart]_vars

----------------------------------------------------------------------------
(* The ingestor and the trend estimator on ledgers with error records and on
   ledgers whose records are in any order of date *)

MaxReplayLen == 2

MaxTrendLen == 3

ReplayKinds == LedgerKinds \cup {"error", "emptyError", "slight"}

\* Ledgers of earlier runs, most recent first, some of whose records are
\* error records (index.js 492-496).
ReplayLedgers(now) ==
    {LedgerOf(ks, now) : ks \in UNION {[1..k -> ReplayKinds] : k \in 1..MaxReplayLen}}

\* A record of p1 that carries a 7-day occupancy and unchanged prices.
TrendRecord(d, sevenDay) ==
    ChangeRecord("p1", d, TRUE, Occ(RawNum(sevenDay), RawNull, RawNull),
                 Price(100, 100), Price(100, 100), NoError)

TrendRecords(now) ==
    {TrendRecord(d, o) : d \in {now - 1, now - 2, now - 3}, o \in {D0_6, D0_65}}

\* Ledgers of p1 in any order of date, two runs of one day included.
TrendLedgers(now) ==
    UNION {[1..k -> TrendRecords(now)] : k \in 1..MaxTrendLen}

\* calculateOccupancyTrend(stats.occupancyHistory) as getPropertyStrategy
\* calls it for a property that has statistics (line 927).
TrendCall(url) ==
    /\ phase = "ready"
    /\ ret.op # "trend"
    /\ propertyStats[url].has
    /\ ret' = [NoRet EXCEPT
                 !.op = "trend", !.url = url,
                 !.out = CalculateOccupancyTrend(propertyStats[url].occupancyHistory)]
    /\ UNCHANGED <<config, today, disk, phase, propertyStats, currentChanges,
                   calls, backup, applied, bot, previous, retryState, logs, zone, clock>>

InitReplay ==
    /\ config = ReadmeConfig
    /\ today = Weekday
    /\ zone = 0
    /\ clock = OrdinaryClock
    /\ disk \in {ObjectFile(today - 1, l) :
                    l \in ReplayLedgers(today) \cup TrendLedgers(today)}
    /\ Constructed

NextReplay ==
    \/ Initialize
    \/ InitializeAgain
    \/ AnalyzeAgain
    \/ \E url \in Props : TrendCall(url)

SpecReplay == InitReplay /\ [][NextReplay]_vars

----------------------------------------------------------------------------
(* The classifier called on its own: getPropertyStrategy(propertyUrl,
   currentOccupancy), src/index.js 798-945, between calls of the calculator *)

\* Ledgers of two records of p1 in any order of date, and ledgers of one
\* record of an earlier run.
ClassifyLedgers(now) ==
    [1..2 -> TrendRecords(now)] \cup (Ledgers(1, now) \ {<<>>})

\* The classifier gets as far as the trend estimator (line 927): no forced
\* hold (910-913), neither the high (916) nor the low (919) occupancy branch,
\* and the property has statistics (922).
ReachesTrend(cfg, stats, currentOccupancy, now) ==
    LET current7DayOcc == ParseOccupancyRate(currentOccupancy.d7)
        current30DayOcc == ParseOccupancyRate(currentOccupancy.d30)
        current60DayOcc == ParseOccupancyRate(currentOccupancy.d60)
        thresholds == cfg.occupancyThresholds
        weightedOcc == WeightedOcc(cfg, current7DayOcc, current30DayOcc,
                                   current60DayOcc)
    IN /\ ~ForceHold(stats, now)
       /\ ~FGe(current7DayOcc, thresholds.high)
       /\ ~(/\ FLt(weightedOcc, thresholds.low)
            /\ FLt(current7DayOcc, thresholds.medium))
       /\ stats.has

\* A variant of calculateOccupancyTrend that sorts the array it is handed
\* (occupancyHistory.sort) instead of a copy of it.
OccupancyHistoryAfterTrendInPlace(occupancyHistory) ==
    [k \in 1..Len(occupancyHistory) |-> SortedAt(occupancyHistory, k - 1)]

\* The array handed to calculateOccupancyTrend, after the call: line 956
\* sorts a copy of it ([...occupancyHistory].sort), so the array itself keeps
\* its order.
OccupancyHistoryAfterTrend(occupancyHistory) == occupancyHistory

\* The statistics of the property after getPropertyStrategy returned: the
\* momentum walk reads a slice of adjustmentHistory (846), the only call that
\* is handed a part of the statistics is the one of line 927.
StatsAfterClassify(cfg, stats, currentOccupancy, now) ==
    IF ReachesTrend(cfg, stats, currentOccupancy, now)
    THEN [stats EXCEPT !.occupancyHistory = OccupancyHistoryAfterTrend(@)]
    ELSE stats

\* getPropertyStrategy(propertyUrl, currentOccupancy)
Classify(url, currentOccupancy) ==
    /\ phase = "ready"
    /\ propertyStats' =
          [propertyStats EXCEPT
              ![url] = StatsAfterClassify(config, @, currentOccupancy, today)]
    /\ ret' = [NoRet EXCEPT
                 !.op = "classify", !.url = url, !.occupancy = currentOccupancy,
                 !.strategy = GetPropertyStrategy(config, propertyStats[url],
                                                  currentOccupancy, today)]
    /\ UNCHANGED <<config, today, disk, phase, currentChanges, calls, backup,
                   applied, bot, previous, retryState, logs, zone, clock>>

\* Calls of the classifier: any number of them before the first call of the
\* calculator, and one after it.
ClassifyAny ==
    /\ calls = 0 \/ ret.op = "adjust"
    /\ \E url \in Props, currentOccupancy \in OccReadings :
          Classify(url, currentOccupancy)

InitClassify ==
    /\ config = ReadmeConfig
    /\ today = Weekday
    /\ zone = 0
    /\ clock = OrdinaryClock
    /\ disk \in {ObjectFile(today - 1, l) : l \in ClassifyLedgers(today)}
    /\ Constructed

\* The first call of the calculator, after calls of the classifier.
AdjustAfterClassify ==
    /\ ret.op = "classify"
    /\ calls = 0
    /\ AdjustAny

NextClassify == Initialize \/ ClassifyAny \/ AdjustAfterClassify

SpecClassify == InitClassify /\ [][NextClassify]_vars

----------------------------------------------------------------------------
(* The bot's retry helper: retry(fn, maxRetries, retryDelay), src/index.js
   69-86 *)

MaxMaxRetries == 4

\* What an invocation of fn can return, and what it can reject with: an
\* Error, or one of the two values a property of which cannot be read.
FnResults == {"r1", "r2"}

FnErrors == {"e1", "e2"}

Unreadable == {"null", "undefined"}

FnRejections == FnErrors \cup Unreadable

\* attempt <= maxRetries, the condition of the loop (line 72).
LoopContinues(attempt, maxRetries) == attempt <= maxRetries

\* attempt < maxRetries, the condition of the delay (line 78).
DelayTaken(attempt, maxRetries) == attempt < maxRetries

\* attempt++ and the test of the loop (line 72); when the loop ends, line 85
\* throws lastError.
NextAttempt(rs) ==
    IF LoopContinues(rs.attempt + 1, rs.maxRetries)
    THEN [rs EXCEPT !.pc = "attempt", !.attempt = @ + 1]
    ELSE [rs EXCEPT !.pc = "thrown", !.attempt = @ + 1, !.thrown = rs.lastError]

\* retry(fn, maxRetries) is called: lines 70-72 up to the first call of fn.
RetryCall(maxRetries) ==
    /\ retryState.pc = "idle"
    /\ retryState' = NextAttempt([NoRetry EXCEPT !.maxRetries = maxRetries])
    /\ ret' = [NoRet EXCEPT !.op = "retry"]
    /\ UNCHANGED <<config, today, disk, phase, propertyStats, currentChanges,
                   calls, backup, applied, bot, previous, logs, zone, clock>>

\* fn() resolves: line 74 returns its value to the caller of retry.
FnReturns(value) ==
    /\ retryState.pc = "attempt"
    /\ retryState' = [retryState EXCEPT !.pc = "returned",
                                        !.invocations = @ + 1,
                                        !.result = value]
    /\ ret' = [NoRet EXCEPT !.op = "fnReturns"]
    /\ UNCHANGED <<config, today, disk, phase, propertyStats, currentChanges,
                   calls, backup, applied, bot, previous, logs, zone, clock>>

\* fn() rejects: the catch of lines 75-82 logs error.message (76), keeps the
\* error (77) and, when attempt < maxRetries, starts the delay; otherwise the
\* loop goes on to its next test.  When fn rejected with null or undefined,
\* line 76 throws a TypeError inside the catch: retry rejects with it at
\* once, lastError not assigned and no delay taken.
FnThrows(error) ==
    /\ retryState.pc = "attempt"
    /\ \E failed \in {[retryState EXCEPT !.invocations = @ + 1,
                                         !.errors = Append(@, error)]} :
          retryState' =
              IF error \in Unreadable
              THEN [failed EXCEPT !.pc = "thrown", !.thrown = "TypeError"]
              ELSE Let([failed EXCEPT !.lastError = error],
                       LAMBDA rs :
                         IF DelayTaken(rs.attempt, rs.maxRetries)
                         THEN [rs EXCEPT !.pc = "delay", !.delays = @ + 1]
                         ELSE NextAttempt(rs))
    /\ ret' = [NoRet EXCEPT !.op = "fnThrows"]
    /\ UNCHANGED <<config, today, disk, phase, propertyStats, currentChanges,
                   calls, backup, applied, bot, previous, logs, zone, clock>>

\* The timer of line 80 fires: the loop goes on to its next test.
DelayElapses ==
    /\ retryState.pc = "delay"
    /\ retryState' = NextAttempt(retryState)
    /\ ret' = [NoRet EXCEPT !.op = "delayElapses"]
    /\ UNCHANGED <<config, today, disk, phase, propertyStats, currentChanges,
                   calls, backup, applied, bot, previous, logs, zone, clock>>

InitRetry ==
    /\ config = ReadmeConfig
    /\ today = Weekday
    /\ zone = 0
    /\ clock = OrdinaryClock
    /\ disk = MissingFile
    /\ Constructed

NextRetry ==
    \/ \E maxRetries \in 0..MaxMaxRetries : RetryCall(maxRetries)
    \/ \E value \in FnResults : FnReturns(value)
    \/ \E error \in FnRejections : FnThrows(error)
    \/ DelayElapses

\* Every invocation of fn settles (it resolves or it rejects) and the timer
\* of line 80 fires.
SpecRetry == InitRetry /\ [][NextRetry]_vars /\ WF_vars(NextRetry)

----------------------------------------------------------------------------
(* The normalizer on its own: parseOccupancyRate applied to raw values *)

\* Numbers handed to parseOccupancyRate.
NormNumbers == {Zero, D0_5, D0_85, D1, D1_5, D85, D100, D150, M0_5}

RECURSIVE StringsUpTo(_)
\* Every string over Alphabet of at most n characters.
StringsUpTo(n) ==
    IF n = 0 THEN {<<>>}
    ELSE StringsUpTo(n - 1) \cup
         {Append(str, c) : str \in {x \in StringsUpTo(n - 1) : Len(x) = n - 1},
                           c \in Alphabet}

RawValues ==
    {RawNull, RawUndefined, RawOther}
      \cup {RawNum(x) : x \in NormNumbers}
      \cup {RawStr(str) : str \in StringsUpTo(MaxStrLen)}

\* parseOccupancyRate(rateStr), index.js 772-790: a pure function, applied
\* once to one raw value.
Normalize(rateStr) ==
    /\ ret.op = "none"
    /\ ret' = [NoRet EXCEPT !.op = "normalize", !.raw = rateStr,
                            !.out = ParseOccupancyRate(rateStr)]
    /\ UNCHANGED <<config, today, disk, phase, propertyStats, currentChanges,
                   calls, backup, applied, bot, previous, retryState, logs, zone, clock>>

InitNorm ==
    /\ config = ReadmeConfig
    /\ today = Weekday
    /\ zone = 0
    /\ clock = OrdinaryClock
    /\ disk = MissingFile
    /\ Constructed

NextNorm == \E rateStr \in RawValues : Normalize(rateStr)

SpecNorm == InitNorm /\ [][NextNorm]_vars

----------------------------------------------------------------------------
(* Properties of the engine *)

\* The ledger's records of `url` that carry a base price, most recent first
\* (the order of the file).
BaseRecords(log, url) ==
    SelectSeq(log, LAMBDA entry : /\ ~Truthy(entry.error)
                                   /\ entry.url = url
                                   /\ entry.basePrice.has)

\* C1: a min-price call on a property whose ledger holds a base-price record
\* returns at most round(0.8 * B), B the after-value of the most recent such
\* record.
FloorInvariant ==
    (/\ ret.op = "adjust"
     /\ ret.priceType = "min"
     /\ BaseRecords(LoadLogs(disk), ret.url) # <<>>) =>
        ret.price <=
            MinAllowedPrice(BaseRecords(LoadLogs(disk), ret.url)[1].basePrice.after)

\* C2: the positive percentage changes applied to one property and price
\* type within the process (all on the same date) never sum to more than 5%.
RateCap ==
    \A url \in Props, priceType \in PriceTypes : FLe(applied[url][priceType], D5)

Reverse(seq) == [i \in 1..Len(seq) |-> seq[Len(seq) + 1 - i]]

\* adjustmentHistory from the most recent adjustment to the oldest: the
\* adjustments of this run (they carry percentChange), latest first, then
\* those replayed from the ledger in the ledger's most-recent-first order.
MostRecentFirst(h) ==
    Reverse(SelectSeq(h, LAMBDA a : a.percentChange.has))
      \o SelectSeq(h, LAMBDA a : ~a.percentChange.has)

ThreeRecentDecreases(h) ==
    /\ Len(h) >= 3
    /\ \A i \in 1..3 : MostRecentFirst(h)[i].strategy = "decrease"

\* C3: when the three most recent adjustments of a property are decreases,
\* the classification made by the next call for that property is hold.
AntiWhiplash ==
    [][\A url \in Props :
          (/\ ThreeRecentDecreases(propertyStats[url].adjustmentHistory)
           /\ calls' = calls + 1
           /\ ret'.op = "adjust"
           /\ ret'.url = url) => ret'.strategy = "hold"]_vars

\* C4: two consecutive calls for one property that both apply the hold
\* oscillation (occupancy inside [low, high], cap not triggered) produce
\* adjustments of opposite sign.
OscillationAlternates ==
    [][(/\ ret.op = "adjust"
        /\ ret.branch = "holdOscillation"
        /\ calls' = calls + 1
        /\ ret'.op = "adjust"
        /\ ret'.url = ret.url
        /\ ret'.branch = "holdOscillation") =>
            (FGt(ret.pct, Zero) # FGt(ret'.pct, Zero))]_vars

\* C6: every price returned by an adjust call is non-negative.
PriceNonNegative ==
    ret.op = "adjust" => ret.price >= 0

\* C8: the dates of each property's adjustmentHistory never decrease along
\* the list.
HistoryDatesNonDecreasing ==
    \A url \in Props :
        LET h == propertyStats[url].adjustmentHistory
        IN \A i \in 1..Len(h), j \in 1..Len(h) :
              i < j => h[i].date <= h[j].date

\* price is currentPrice * (1 + pct / 100) rounded to a whole number: the two
\* are at most 1/2 apart, that is, 100 * (price - currentPrice) and
\* currentPrice * pct are at most 50 apart (up to the rounding error of the
\* arithmetic on doubles).
IsRounded(price, currentPrice, pct) ==
    FLe(FAbs(FSub(FromInt(100 * (price - currentPrice)),
                  FMul(FromInt(currentPrice), pct))),
        D50_000001)

\* The last call was a min-price call on a property that has a price history.
FloorApplies ==
    /\ ret.priceType = "min"
    /\ propertyStats[ret.url].has
    /\ propertyStats[ret.url].priceHistory # <<>>

\* The price the last call returns for the rounded price it computed: capped,
\* where the floor rule applies, at round(0.8 * base-price-after) of the first
\* price-history record.
ReturnedFor(adjustedPrice) ==
    IF FloorApplies
    THEN Min(adjustedPrice,
             MinAllowedPrice(propertyStats[ret.url].priceHistory[1].basePrice.after))
    ELSE adjustedPrice

\* The percentage of the increase strategy below the cap, for the last call.
ExpectedIncrease ==
    LET sevenDay == ParseOccupancyRate(ret.occupancy.d7)
    IN IF FGe(sevenDay, D0_95) THEN FMul(config.increase, D1_5)
       ELSE IF FGe(sevenDay, config.occupancyThresholds.high)
            THEN FMul(config.increase, D1_2)
       ELSE config.increase

\* C11, as claimed: an increase below the 7-day cap applies the configured
\* percentage times 1.5, 1.2 or 1 by 7-day occupancy, and the returned price
\* is round(currentPrice * (1 + percentage / 100)).
IncreaseRuleUnclamped ==
    (ret.op = "adjust" /\ ret.branch = "increase") =>
        /\ ret.pct = ExpectedIncrease
        /\ IsRounded(ret.price, ret.currentPrice, ret.pct)

\* C11, amended: an increase below the 7-day cap applies the configured
\* percentage times 1.5, 1.2 or 1 by 7-day occupancy and computes
\* round(currentPrice * (1 + percentage / 100)); that price is returned,
\* except that a min-price call on a property with a price history returns it
\* capped by the floor rule.  A property without history, the README config,
\* occupancy (0.90, 0.80, 0.75) and currentPrice 150: increase, 154.
IncreaseRule ==
    /\ (ret.op = "adjust" /\ ret.branch = "increase") =>
          /\ ret.strategy = "increase"
          /\ ret.pct = ExpectedIncrease
          /\ IsRounded(ret.adjustedPrice, ret.currentPrice, ret.pct)
          /\ ret.price = ReturnedFor(ret.adjustedPrice)
    /\ (/\ ret.op = "adjust"
        /\ config = ReadmeConfig
        /\ ~propertyStats[ret.url].has
        /\ ret.occupancy = OccExample
        /\ ret.currentPrice = 150) =>
          (ret.strategy = "increase" /\ ret.pct = D2_4 /\ ret.price = 154)

IncreaseExampleSeen ==
    /\ ret.op = "adjust"
    /\ config = ReadmeConfig
    /\ ~propertyStats[ret.url].has
    /\ ret.occupancy = OccExample
    /\ ret.currentPrice = 150
    /\ ret.price = 154

\* The percentage of the decrease strategy, for the last call.
ExpectedDecrease ==
    LET sevenDay == ParseOccupancyRate(ret.occupancy.d7)
        thirtyDay == ParseOccupancyRate(ret.occupancy.d30)
        sixtyDay == ParseOccupancyRate(ret.occupancy.d60)
        weighted == FAdd(FAdd(FMul(sevenDay, config.occupancyWeights.sevenDay),
                              FMul(thirtyDay, config.occupancyWeights.thirtyDay)),
                         FMul(sixtyDay, config.occupancyWeights.sixtyDay))
    IN IF FLt(weighted, config.occupancyThresholds.critical)
       THEN FNeg(FMul(config.decrease, D1_5))
       ELSE IF FLt(sevenDay, D0_3) /\ FLt(thirtyDay, config.occupancyThresholds.low)
            THEN FNeg(FMul(config.decrease, D1_2))
       ELSE FNeg(config.decrease)

\* C12, as claimed: a decrease applies minus the configured percentage times
\* 1.5, 1.2 or 1, and the returned price is
\* round(currentPrice * (1 + percentage / 100)).
DecreaseRuleUnclamped ==
    (ret.op = "adjust" /\ ret.strategy = "decrease") =>
        /\ ret.pct = ExpectedDecrease
        /\ IsRounded(ret.price, ret.currentPrice, ret.pct)

\* C12, amended: a decrease applies minus the configured percentage times 1.5
\* (weighted occupancy below critical), 1.2 (7-day below 0.30 and 30-day below
\* low) or 1 and computes round(currentPrice * (1 + percentage / 100)); that
\* price is returned, except that a min-price call on a property with a price
\* history returns it capped by the floor rule.  Weighted occupancy 0.15,
\* decrease.percentage 2, currentPrice 100, no price history: 97.
DecreaseRule ==
    /\ (ret.op = "adjust" /\ ret.strategy = "decrease") =>
          /\ ret.pct = ExpectedDecrease
          /\ FLe(ret.pct, Zero)
          /\ IsRounded(ret.adjustedPrice, ret.currentPrice, ret.pct)
          /\ ret.price = ReturnedFor(ret.adjustedPrice)
    /\ (/\ ret.op = "adjust"
        /\ ret.strategy = "decrease"
        /\ config = ReadmeConfig
        /\ ~propertyStats[ret.url].has
        /\ ret.occupancy = OccCritical
        /\ ret.currentPrice = 100) =>
          (ret.pct = M3 /\ ret.price = 97)

DecreaseExampleSeen ==
    /\ ret.op = "adjust"
    /\ ret.strategy = "decrease"
    /\ config = ReadmeConfig
    /\ ~propertyStats[ret.url].has
    /\ ret.occupancy = OccCritical
    /\ ret.currentPrice = 100
    /\ ret.price = 97

\* An adjustment that raised a price under the increase strategy.
IsIncrease(a) ==
    /\ a.strategy = "increase"
    /\ (FGt(a.minPricePercentChange, Zero) \/ FGt(a.basePricePercentChange, Zero))

RECURSIVE RunIncrease(_, _)
\* The cumulative increase of the run of increases that starts at position i
\* of a most-recent-first list.
RunIncrease(seq, i) ==
    IF i > Len(seq) \/ ~IsIncrease(seq[i]) THEN Zero
    ELSE FAdd(FMax(seq[i].minPricePercentChange, seq[i].basePricePercentChange),
              RunIncrease(seq, i + 1))

\* The cumulative increase of the current (most recent) run of increases.
CurrentRunIncrease(h) == RunIncrease(MostRecentFirst(h), 1)

\* The total base-price increase of all adjustments dated in the last 7 days.
TrailingIncrease(h, now) == SevenDayIncreaseOver(h, 1, Len(h), "base", now)

\* C13: when a property's history shows a current run of increases totalling
\* 3% or more, or increases over the trailing 7 days totalling 4% or more, the
\* classification made by the next call for that property is hold.
IncreaseGuardForcesHold ==
    [][\A url \in Props :
          (/\ \/ FGe(CurrentRunIncrease(propertyStats[url].adjustmentHistory), D3)
              \/ FGe(TrailingIncrease(propertyStats[url].adjustmentHistory, today), D4)
           /\ calls' = calls + 1
           /\ ret'.op = "adjust"
           /\ ret'.url = url) => ret'.strategy = "hold"]_vars

\* The step is a call of calculateAdjustedPrice.
AdjustStep == calls' = calls + 1 /\ ret'.op = "adjust"

\* The occupancy decision of the classifier, written as a table.
TableStrategy(cfg, stats, occupancy) ==
    LET sevenDay == ParseOccupancyRate(occupancy.d7)
        weighted ==
            FAdd(FAdd(FMul(sevenDay, cfg.occupancyWeights.sevenDay),
                      FMul(ParseOccupancyRate(occupancy.d30),
                           cfg.occupancyWeights.thirtyDay)),
                 FMul(ParseOccupancyRate(occupancy.d60),
                      cfg.occupancyWeights.sixtyDay))
        trend == CalculateOccupancyTrend(stats.occupancyHistory)
    IN CASE FGe(sevenDay, cfg.occupancyThresholds.high) -> "increase"
         [] /\ FLt(sevenDay, cfg.occupancyThresholds.high)
            /\ FLt(weighted, cfg.occupancyThresholds.low)
            /\ FLt(sevenDay, cfg.occupancyThresholds.medium) -> "decrease"
         [] OTHER ->
              IF ~stats.has THEN cfg.strategy
              ELSE IF FGt(trend, D5) \/ FGt(sevenDay, D0_7) THEN "increase"
              ELSE IF FLt(trend, M3) \/ FLt(weighted, D0_45)
                   THEN "decrease"
              ELSE "hold"

\* C14: when no guard forces hold, the classification of a call is the one
\* the decision table gives for its occupancy reading.
DecisionTable ==
    [][(AdjustStep /\ ~ForceHold(propertyStats[ret'.url], today)) =>
          ret'.strategy =
              TableStrategy(config, propertyStats[ret'.url], ret'.occupancy)]_vars

\* A property without history, 7-day occupancy at thresholds.medium and
\* weighted occupancy below thresholds.low: the configured strategy.
DecisionTableSeen ==
    /\ ret.op = "adjust"
    /\ ~propertyStats[ret.url].has
    /\ ret.occupancy = OccMixed
    /\ ret.strategy = config.strategy

\* The records of the current-run buffer for `url`.
ChangesFor(changes, url) == {i \in 1..Len(changes) : changes[i].url = url}

\* C15: every call that resolves to increase, decrease or hold appends one
\* record to the property's adjustmentHistory and leaves exactly one record
\* for the property in the current-run buffer.
EveryAdjustmentRecorded ==
    [][(AdjustStep /\ ret'.strategy \in {"increase", "decrease", "hold"}) =>
          /\ Len(propertyStats'[ret'.url].adjustmentHistory) =
                Len(propertyStats[ret'.url].adjustmentHistory) + 1
          /\ Cardinality(ChangesFor(currentChanges', ret'.url)) = 1]_vars

\* C16: a call whose strategy is none of increase, decrease and hold returns
\* currentPrice and changes neither the statistics nor the buffer.
UnknownStrategyChangesNothing ==
    [][(AdjustStep /\ ret'.strategy \notin {"increase", "decrease", "hold"}) =>
          /\ ret'.price = ret'.currentPrice
          /\ propertyStats' = propertyStats
          /\ currentChanges' = currentChanges]_vars

UnknownStrategySeen ==
    /\ ret.op = "adjust"
    /\ ret.strategy = "auto"
    /\ ret.price = ret.currentPrice
    /\ currentChanges = <<>>

RECURSIVE TrailingPositiveSum(_, _, _)
\* The sum of the positive percentage changes of `priceType` over the
\* adjustment records dated in the last 7 days.
TrailingPositiveSum(h, priceType, now) ==
    IF h = <<>> THEN Zero
    ELSE LET last == h[Len(h)]
             change == IF priceType = "min" THEN last.minPricePercentChange
                       ELSE last.basePricePercentChange
         IN FAdd(TrailingPositiveSum(SubSeq(h, 1, Len(h) - 1), priceType, now),
                 IF InLast7Days(last.date, now) /\ FGt(change, Zero) THEN change ELSE Zero)

\* The increase proposed for an occupancy reading, before the cap.
PlannedIncrease(cfg, occupancy) ==
    LET sevenDay == ParseOccupancyRate(occupancy.d7)
    IN IF FGe(sevenDay, D0_95) THEN FMul(cfg.increase, D1_5)
       ELSE IF FGe(sevenDay, cfg.occupancyThresholds.high)
            THEN FMul(cfg.increase, D1_2)
       ELSE cfg.increase

\* The cap of the increase branch: a magnitude that would take the 7-day sum
\* over 5% is reduced to reach 5%, and replaced by -1% when less than 1% is left.
CapLogic(planned, sum) ==
    IF FGt(FAdd(sum, planned), D5)
    THEN IF FGe(FSub(D5, sum), D1) THEN FSub(D5, sum) ELSE M1
    ELSE planned

\* C25: an increase-strategy call whose proposed magnitude would take the
\* trailing 7-day positive sum S of its price type over 5% applies exactly
\* 5 - S when that is at least 1%, and -1% otherwise; the percentage it
\* applies is never in [0, 1).
IncreaseCap ==
    [][(AdjustStep /\ ret'.strategy = "increase") =>
          LET sum == TrailingPositiveSum(propertyStats[ret'.url].adjustmentHistory,
                                         ret'.priceType, today)
              planned == PlannedIncrease(config, ret'.occupancy)
          IN /\ ret'.pct = CapLogic(planned, sum)
             /\ FGt(FAdd(sum, planned), D5) =>
                   /\ ret'.pct = (IF FGe(FSub(D5, sum), D1) THEN FSub(D5, sum)
                                  ELSE M1)
                   /\ ~(FLe(Zero, ret'.pct) /\ FLt(ret'.pct, D1))]_vars

\* An increase of which the cap left less than 1%: -1% was applied.
IncreaseCapSeen ==
    /\ ret.op = "adjust"
    /\ ret.strategy = "increase"
    /\ ret.branch = "increaseCappedDown"
    /\ ret.pct = M1

\* Weighted occupancy of a reading.
WeightedOf(cfg, occupancy) ==
    FAdd(FAdd(FMul(ParseOccupancyRate(occupancy.d7), cfg.occupancyWeights.sevenDay),
              FMul(ParseOccupancyRate(occupancy.d30), cfg.occupancyWeights.thirtyDay)),
         FMul(ParseOccupancyRate(occupancy.d60), cfg.occupancyWeights.sixtyDay))

\* The oscillation of a hold call made on the calendar date `day`: up unless
\* the last one was up; on Saturday and Sunday an upward move is scaled by 1.2
\* and a downward one by 0.8; an upward move that would take the 7-day sum
\* over 4.5% becomes -1%.
ExpectedOscillation(cfg, last, sum, day) ==
    LET direction == IF last.has /\ FGt(last.v, Zero) THEN -1 ELSE 1
        magnitude == IF day % 7 \in {0, 6}
                     THEN IF direction > 0 THEN FMul(cfg.oscillation, D1_2)
                          ELSE FMul(cfg.oscillation, D0_8)
                     ELSE cfg.oscillation
    IN IF direction > 0 /\ FGt(FAdd(sum, magnitude), D4_5) THEN M1
       ELSE IF direction > 0 THEN magnitude ELSE FNeg(magnitude)

\* C26: a hold call with weighted occupancy inside [low, high] applies the
\* oscillation (alternating, scaled when the call is made on a Saturday or
\* Sunday of the process's local calendar, replaced by -1% near the 7-day
\* limit), and the lastOscillationDirection of the property's statistics
\* then holds the percentage applied.
OscillationRule ==
    [][(/\ AdjustStep
        /\ ret'.strategy = "hold"
        /\ FGe(WeightedOf(config, ret'.occupancy), config.occupancyThresholds.low)
        /\ FLe(WeightedOf(config, ret'.occupancy), config.occupancyThresholds.high)) =>
          /\ ret'.pct =
                ExpectedOscillation(config,
                    propertyStats[ret'.url].lastOscillationDirection,
                    TrailingPositiveSum(propertyStats[ret'.url].adjustmentHistory,
                                        ret'.priceType, today),
                    today + zone)
          /\ propertyStats'[ret'.url].has =>
                propertyStats'[ret'.url].lastOscillationDirection = Some(ret'.pct)]_vars

\* A downward oscillation on a Saturday by the UTC date, the first hour of
\* Sunday on the local clock: -0.8%, stored as applied.
OscillationRuleSeen ==
    /\ ret.op = "adjust"
    /\ ret.strategy = "hold"
    /\ today = Saturday
    /\ zone = 1
    /\ ret.pct = M0_8
    /\ propertyStats[ret.url].lastOscillationDirection = Some(M0_8)

\* C27: a hold call with weighted occupancy above thresholds.high applies what
\* the cap logic of the increase branch gives for 0.7 * increase.percentage,
\* and one with weighted occupancy below thresholds.low applies
\* -0.7 * decrease.percentage.
HoldOverrides ==
    [][(AdjustStep /\ ret'.strategy = "hold") =>
          /\ FGt(WeightedOf(config, ret'.occupancy), config.occupancyThresholds.high) =>
                ret'.pct =
                    CapLogic(FMul(config.increase, D0_7),
                             TrailingPositiveSum(
                                 propertyStats[ret'.url].adjustmentHistory,
                                 ret'.priceType, today))
          /\ FLt(WeightedOf(config, ret'.occupancy), config.occupancyThresholds.low) =>
                ret'.pct = FNeg(FMul(config.decrease, D0_7))]_vars

\* The statistics without the adjustment records dated before the last 7 days.
RecentOnly(stats, now) ==
    [stats EXCEPT !.adjustmentHistory =
                     SelectSeq(@, LAMBDA a : InLast7Days(a.date, now))]

\* C23: whether the classifier forces hold for a property is the same with
\* and without the adjustment records older than 7 days.
GuardUsesLastSevenDaysOnly ==
    phase = "ready" =>
        \A url \in Props :
            ForceHold(propertyStats[url], today)
                = ForceHold(RecentOnly(propertyStats[url], today), today)

\* The records the loop of lines 849-884 can visit, in the order it visits
\* them: recentAdjustments from its last element to its first.
Walked(h) == Reverse(LastSeven(h))

\* C24: the guard walks a property's adjustment records from the most recent
\* one by date towards older ones, and no record it leaves out is more recent
\* than one it walks.
GuardWalksMostRecentFirst ==
    \A url \in Props :
        LET h == propertyStats[url].adjustmentHistory
            w == Walked(h)
        IN /\ \A i \in 1..Len(w), j \in 1..Len(w) :
                 i < j => w[i].date >= w[j].date
           /\ \A k \in 1..(Len(h) - Len(w)), i \in 1..Len(w) :
                 h[k].date <= w[i].date

Sign(x) == IF FGt(x, Zero) THEN 1 ELSE IF FLt(x, Zero) THEN -1 ELSE 0

\* C33: two consecutive calls for one property with the same occupancy
\* reading, one for each price type (in either order), resolve to the same
\* strategy and apply percentages of the same sign.
TwoCallsAgree ==
    [][(/\ ret.op = "adjust"
        /\ AdjustStep
        /\ ret'.url = ret.url
        /\ ret'.occupancy = ret.occupancy
        /\ ret'.priceType # ret.priceType) =>
          /\ ret'.strategy = ret.strategy
          /\ Sign(ret'.pct) = Sign(ret.pct)]_vars

\* The after-price the buffer holds for `url` and `priceType`.
BufferedAfter(changes, url, priceType) ==
    LET change == changes[FindChange(changes, url)]
    IN IF priceType = "min" THEN change.minPrice.after ELSE change.basePrice.after

\* C34: after a call that recorded a change, the after-price the buffer holds
\* for the call's property and price type is the price the call returned.
BufferHoldsReturnedPrice ==
    (ret.op = "adjust" /\ ret.recorded) =>
        BufferedAfter(currentChanges, ret.url, ret.priceType) = ret.price

\* C35: a call on a property whose guard counts three or more consecutive
\* decreases is classified hold and applies a percentage no larger in
\* magnitude than the hold oscillation (the configured oscillation, scaled by
\* at most 1.2, or the 1% of the capped case).
WhiplashHoldIsSmall ==
    [][(/\ AdjustStep
        /\ propertyStats[ret'.url].has
        /\ Momentum(propertyStats[ret'.url], today).consecutiveDecreases >= 3) =>
          /\ ret'.strategy = "hold"
          /\ FLe(FAbs(ret'.pct), FMax(FMul(config.oscillation, D1_2), D1))]_vars

----------------------------------------------------------------------------
(* Properties of the ingestor and of the trend estimator *)

\* The log without the records that have `error` set.
WithoutErrors(log) == SelectSeq(log, LAMBDA entry : entry.error = NoError)

\* C21: the statistics initialize builds from a ledger are those it builds from
\* the ledger without the records that have `error` set, on a new engine and
\* on one that holds statistics already, and so are those a call of
\* analyzeHistoricalData builds from the logs the engine holds.
ErrorRecordsIgnored ==
    [][/\ ret'.op = "initialize" =>
            propertyStats' =
                IF Analyzed(disk)
                THEN AnalyzeHistoricalData(propertyStats,
                                           WithoutErrors(LoadLogs(disk)))
                ELSE propertyStats
       /\ ret'.op = "analyze" =>
            propertyStats' = AnalyzeHistoricalData(propertyStats,
                                                   WithoutErrors(logs))]_vars

\* The orders in which n entries can be stored.
Orders(n) == {f \in [1..n -> 1..n] : \A i \in 1..n, j \in 1..n : f[i] = f[j] => i = j}

\* Entry i is the first of h outside `taken` in the order of the sort: by
\* date, latest first, entries of one date in the order they are stored.
RanksFirst(h, i, taken) ==
    /\ i \notin taken
    /\ \A k \in (1..Len(h)) \ (taken \cup {i}) :
          \/ h[k].date < h[i].date
          \/ (h[k].date = h[i].date /\ i < k)

DistinctDates(h) ==
    \A i \in 1..Len(h), j \in 1..Len(h) : h[i].date = h[j].date => i = j

\* C28, as claimed: the trend is 0 for fewer than 2 entries, and otherwise
\* 100 * (sevenDay of the latest entry - sevenDay of the second-latest),
\* whatever the order in which the entries are stored.
TrendIndependentOfOrder ==
    ret.op = "trend" =>
        LET h == propertyStats[ret.url].occupancyHistory
        IN /\ Len(h) < 2 => ret.out = Zero
           /\ \A f \in Orders(Len(h)) :
                 CalculateOccupancyTrend([i \in 1..Len(h) |-> h[f[i]]]) = ret.out

\* C28, amended: the trend is 0 for fewer than 2 entries, and otherwise
\* 100 * (sevenDay of the latest entry - sevenDay of the second-latest),
\* entries of the same date ranking in the order they are stored; when the
\* dates are distinct it does not depend on the order of storage.
TrendOfTwoLatest ==
    ret.op = "trend" =>
        LET h == propertyStats[ret.url].occupancyHistory
        IN /\ Len(h) < 2 => ret.out = Zero
           /\ Len(h) >= 2 =>
                 \E i \in 1..Len(h), j \in 1..Len(h) :
                    /\ RanksFirst(h, i, {})
                    /\ RanksFirst(h, j, {i})
                    /\ ret.out = FMul(FSub(h[i].sevenDay, h[j].sevenDay), D100)
           /\ DistinctDates(h) =>
                 \A f \in Orders(Len(h)) :
                    CalculateOccupancyTrend([i \in 1..Len(h) |-> h[f[i]]]) = ret.out

\* Three entries stored oldest first: the trend is that of the last two,
\* (0.65 - 0.6) * 100, which is 5.000000000000004 in doubles.
TrendOfTwoLatestSeen ==
    /\ ret.op = "trend"
    /\ Len(propertyStats[ret.url].occupancyHistory) = 3
    /\ propertyStats[ret.url].occupancyHistory[1].date = today - 3
    /\ propertyStats[ret.url].occupancyHistory[1].sevenDay = D0_65
    /\ propertyStats[ret.url].occupancyHistory[2].date = today - 2
    /\ propertyStats[ret.url].occupancyHistory[2].sevenDay = D0_6
    /\ propertyStats[ret.url].occupancyHistory[3].date = today - 1
    /\ propertyStats[ret.url].occupancyHistory[3].sevenDay = D0_65
    /\ ret.out = D5_000000000000004

----------------------------------------------------------------------------
(* Properties of the normalizer *)

HasDigit(str) == \E i \in 1..Len(str) : str[i] \in Digits

\* C7: normalize returns a value in [0,1] for every input.
NormalizeInUnitRange ==
    ret.op = "normalize" => (FLe(Zero, ret.out) /\ FLe(ret.out, D1))

\* C9: normalize maps "N/A", null, undefined, "", a value that is neither a
\* number nor a string, and a string without a digit to 0, and maps "85%",
\* 0.85 and 85 to 0.85.
NormalizeExamples ==
    ret.op = "normalize" =>
        /\ ret.raw \in {RawNull, RawUndefined, RawOther} => ret.out = Zero
        /\ ret.raw \in {RawStr(<<"N", "/", "A">>), RawStr(<<>>)} => ret.out = Zero
        /\ (ret.raw.t = "string" /\ ~HasDigit(ret.raw.s)) => ret.out = Zero
        /\ ret.raw = RawStr(<<"8", "5", "%">>) => ret.out = D0_85
        /\ ret.raw = RawNum(D0_85) => ret.out = D0_85
        /\ ret.raw = RawNum(D85) => ret.out = D0_85

NormalizeExamplesSeen ==
    /\ ret.op = "normalize"
    /\ ret.raw = RawNum(D85)
    /\ ret.out = D0_85

\* C10, as claimed: a string with a numeric token is normalized by the rule
\* for numbers (divided by 100 when above 1, taken as it is otherwise), so
\* the string and the number of the same value normalize alike.
StringNormalizedLikeNumber ==
    (ret.op = "normalize" /\ ret.raw.t = "string" /\ HasDigit(ret.raw.s)) =>
        LET m == RegexMatch(ret.raw.s)
        IN ret.out = IF TokenAboveOne(m) THEN ParseFloatOver100(m)
                     ELSE ParseFloat(m)

\* C10, amended: a string with a numeric token is always normalized to the
\* token divided by 100, whatever its size; that is the result for the
\* number of the same value when the value is above 1 or is 0, and a
\* hundredth of the number's result when the value is in (0, 1].
StringAlwaysDividedBy100 ==
    (ret.op = "normalize" /\ ret.raw.t = "string" /\ HasDigit(ret.raw.s)) =>
        LET m == RegexMatch(ret.raw.s)
        IN /\ ret.out = ParseFloatOver100(m)
           /\ (~TokenAboveOne(m) /\ FGt(ParseFloat(m), Zero)) =>
                 /\ ret.out = FDiv(ParseOccupancyRate(RawNum(ParseFloat(m))), D100)
                 /\ ret.out # ParseOccupancyRate(RawNum(ParseFloat(m)))
           /\ (~TokenAboveOne(m) /\ ParseFloat(m) = Zero) =>
                 ret.out = ParseOccupancyRate(RawNum(Zero))

StringDecimalSeen ==
    /\ ret.op = "normalize"
    /\ ret.raw = RawStr(<<"0", ".", "8", "5">>)
    /\ ret.out = D0_0085

----------------------------------------------------------------------------
(* Properties of the ledger *)

\* C5: after any sequence of persist operations the on-disk changes list
\* has at most 1000 entries.
LedgerWithinLimit ==
    disk.kind = "object" => Len(disk.changes) <= maxHistoryEntries


\* The step is a call of one of the two ledger writers.
PersistStep ==
    calls' = calls + 1 /\ ret'.op \in {"saveChanges", "saveChangesToLog"}

\* A persist that writes the ledger: saveChangesToLog, or saveChanges with a
\* non-empty buffer, the write succeeding.
WritingPersistStep ==
    /\ PersistStep
    /\ ~ret'.writeFailed
    /\ (ret'.op = "saveChanges" => ret'.newChanges # <<>>)

\* seq or, when it is longer than n, its first n elements.
FirstN(seq, n) == IF Len(seq) > n THEN SubSeq(seq, 1, n) ELSE seq

\* C17: a persist that writes over a single-object ledger leaves an object
\* whose lastRun is the date of the day the write is made on and whose
\* changes are the run's changes, in their order, followed by the stored ones
\* in their order (as a whole, or cut to the first 1000).
PersistPrepends ==
    [][(WritingPersistStep /\ disk.kind = "object") =>
          /\ disk'.kind = "object"
          /\ disk'.lastRun = today
          /\ disk'.changes \in
                {ret'.newChanges \o disk.changes,
                 FirstN(ret'.newChanges \o disk.changes, maxHistoryEntries)}]_vars

\* C18: when the ledger write of a persist fails, the backup file holds
\* exactly the changes of the current run.
BackupOnWriteFailure ==
    [][(PersistStep /\ ret'.writeFailed) =>
          backup' = BackupOf(ret'.newChanges)]_vars

\* C19: saveChanges leaves the buffer empty when its write succeeded and as
\* it was (still holding the changes) when its write failed.
BufferClearedOnSuccessOnly ==
    [][(PersistStep /\ ret'.op = "saveChanges") =>
          IF ret'.writeFailed
          THEN currentChanges' = currentChanges /\ currentChanges' # <<>>
          ELSE currentChanges' = <<>>]_vars

BufferClearedSeen ==
    /\ ret.op = "saveChanges"
    /\ ~ret.writeFailed
    /\ ret.newChanges # <<>>
    /\ currentChanges = <<>>

RECURSIVE ConcatRuns(_)
\* The changes of every run, in order.
ConcatRuns(runs) ==
    IF runs = <<>> THEN <<>>
    ELSE ConcatRuns(SubSeq(runs, 1, Len(runs) - 1)) \o runs[Len(runs)].changes

\* C20: right after initialize, an array-of-runs ledger has given the record
\* list that is the concatenation, in order, of the runs' changes, which is
\* the list the single-object ledger holding that concatenation gives, and
\* the statistics of that list; a missing or unparseable ledger has given an
\* empty list and no statistics, and initialize has returned.
LedgerShapesAgree ==
    (ret.op = "initialize" /\ calls = 0) =>
        /\ phase = "ready"
        /\ disk.kind = "array" =>
              /\ logs = ConcatRuns(disk.runs)
              /\ logs = LogsAfterInitialize(
                            ObjectFile(today, ConcatRuns(disk.runs)), <<>>)
              /\ propertyStats =
                    AnalyzeHistoricalData(NoPropertyStats, ConcatRuns(disk.runs))
        /\ disk.kind \in {"missing", "invalid"} =>
              /\ logs = <<>>
              /\ \A url \in Props : propertyStats[url] = NoStats

\* An array of two runs was loaded, each run with two records, three of
\* them of p1 with dates of their own: the order of the runs and of the
\* records within a run shows in the list and in the history of p1.
LedgerShapesSeen ==
    /\ ret.op = "initialize"
    /\ calls = 0
    /\ disk.kind = "array"
    /\ Len(disk.runs) = 2
    /\ Len(disk.runs[1].changes) = 2
    /\ Len(disk.runs[2].changes) = 2
    /\ Len(logs) = 4
    /\ Len(propertyStats["p1"].adjustmentHistory) = 3
    /\ propertyStats["p2"].has

\* C29: a persist that writes over an array of runs leaves a single object
\* whose changes are the run's changes followed by those of the first run.
ArrayLedgerBecomesObject ==
    [][(WritingPersistStep /\ disk.kind = "array" /\ disk.runs # <<>>) =>
          disk' = ObjectFile(today, ret'.newChanges \o disk.runs[1].changes)]_vars

\* The ledger file is present but is not a ledger: text that does not parse,
\* null, a primitive, an object without `changes`, or an empty array.
Malformed(file) ==
    \/ file.kind \in {"invalid", "null", "primitive", "bare"}
    \/ (file.kind = "array" /\ file.runs = <<>>)

\* C30: a persist over a malformed ledger file leaves a ledger that holds
\* exactly the changes of the current run.
MalformedLedgerTreatedAsEmpty ==
    [][(WritingPersistStep /\ Malformed(disk)) =>
          disk' = ObjectFile(today, ret'.newChanges)]_vars

----------------------------------------------------------------------------
(* Properties of the run *)

\* C22: a run that reaches its end, no write of it having failed, has
\* written the ledger file exactly once, and no step before the end of the
\* run (a property processed, an abort between two properties) writes it.
LedgerWrittenOnceAtEnd ==
    /\ [](bot.pc = "done" /\ ~ret.writeFailed => bot.writes = 1)
    /\ [][bot'.pc # "done" => disk' = disk]_vars

\* The positions of the ledger's change records of `url` dated `now`.
RecordsOfRun(file, url, now) ==
    {i \in 1..Len(LoadLogs(file)) :
        /\ LoadLogs(file)[i].error = NoError
        /\ (LoadLogs(file)[i].minPrice.has \/ LoadLogs(file)[i].basePrice.has)
        /\ LoadLogs(file)[i].url = url
        /\ LoadLogs(file)[i].date = now}

\* C36: after a complete run the ledger holds at most one change record per
\* property for the date of the run.
OneRecordPerProperty ==
    bot.pc = "done" =>
        \A url \in Props, d \in {bot.today, today} :
            Cardinality(RecordsOfRun(disk, url, d)) <= 1

\* The step is one iteration of the property loop.
LoopStep == bot.pc = "loop" /\ ret'.op \in {"process", "processFailed"}

\* C39: a failure while a property is processed, before the engine is called
\* or after it, leaves the loop running on the next property; every
\* iteration adds exactly one entry to `changes`, of the property attempted
\* (a record without prices exactly when the iteration failed); a run that has
\* entered the loop and ended has attempted every property, in order; and
\* when runBot has ended, whether after the loop, by a failure before the
\* loop or by one during it, no browser is left open.
LoopSurvivesFailures ==
    /\ [][(LoopStep /\ ret'.op = "processFailed") =>
             (bot'.pc = "loop" /\ bot'.i = bot.i + 1)]_vars
    /\ [][LoopStep =>
             /\ Len(bot'.changes) = Len(bot.changes) + 1
             /\ SubSeq(bot'.changes, 1, Len(bot.changes)) = bot.changes
             /\ bot'.changes[Len(bot'.changes)].url = PropertyLinks[bot.i]
             /\ bot'.changes[Len(bot'.changes)].minPrice.has
                   = (ret'.op = "process")]_vars
    /\ [](bot.pc \in {"done", "aborted"} /\ bot.i > 0 =>
             /\ Len(bot.changes) = Len(PropertyLinks)
             /\ \A k \in 1..Len(PropertyLinks) : bot.changes[k].url = PropertyLinks[k])
    /\ [](bot.pc \in {"done", "aborted", "crashed"} => bot.browser # "open")
    /\ [](bot.pc = "loop" => bot.browser = "open")

----------------------------------------------------------------------------
(* Properties of the classifier called on its own *)

\* C37: getPropertyStrategy is read-only.  Every call of it, for every
\* property and occupancy reading, leaves the PropertyStatistics of every
\* property (the history arrays in their order, lastOscillationDirection,
\* lastUpdate) and the buffer of the current run's changes as they were, and
\* every call of calculateAdjustedPrice made after it returns, stores and
\* buffers what it would have without it.
ClassifyIsReadOnly ==
    [][ret'.op = "classify" =>
          /\ propertyStats' = propertyStats
          /\ currentChanges' = currentChanges
          /\ \A url \in Props, currentPrice \in CurrentPrices,
                currentOccupancy \in OccReadings, priceType \in PriceTypes :
                CalculateAdjustedPrice(config, propertyStats'[url],
                                       currentChanges', url, currentPrice,
                                       currentOccupancy, priceType, today)
                  = CalculateAdjustedPrice(config, propertyStats[url],
                                           currentChanges, url, currentPrice,
                                           currentOccupancy, priceType, today)]_vars

\* The classifier returned after it called the trend estimator on a history
\* that is not in order of date.
ClassifyIsReadOnlySeen ==
    /\ ret.op = "classify"
    /\ ReachesTrend(config, propertyStats[ret.url], ret.occupancy, today)
    /\ \E k \in 1..Len(propertyStats[ret.url].occupancyHistory) :
          SortedAt(propertyStats[ret.url].occupancyHistory, k - 1)
            # propertyStats[ret.url].occupancyHistory[k]

----------------------------------------------------------------------------
(* Properties of a restart *)

\* C31: right after the initialize of a process that follows a complete run,
\* the trailing 7-day positive sum of each property and price type and the
\* force-hold decision of each property are those the engine of the run held
\* in memory at its end.
RateLimitStatePreserved ==
    (ret.op = "initialize" /\ previous.has) =>
        \A url \in Props :
            /\ \A priceType \in PriceTypes :
                  SevenDayIncrease(propertyStats[url], priceType, today)
                    = SevenDayIncrease(previous.stats[url], priceType, today)
            /\ ForceHold(propertyStats[url], today)
                  = ForceHold(previous.stats[url], today)

\* C32: when the last hold oscillation of a property in the run before the
\* restart was upward, the first engine call for the property after the
\* restart, if it applies the hold oscillation (uncapped), applies a downward
\* one, and the other way round.
OscillationSurvivesRestart ==
    [][(/\ bot.pc = "loop"
        /\ ret'.op = "process"
        /\ previous.has
        /\ previous.stats[ret'.url].lastOscillationDirection.has
        /\ ret'.minCall.branch = "holdOscillation") =>
          Sign(ret'.minCall.pct) =
              -Sign(previous.stats[ret'.url].lastOscillationDirection.v)]_vars

----------------------------------------------------------------------------
(* Properties of retry *)

\* retry has handed control back to its caller.
RetrySettled == retryState.pc \in {"returned", "thrown"}

\* C38: retry settles; it invokes fn at most maxRetries times; when it
\* returns, the value is that of the one invocation that succeeded, every
\* invocation before it failed and none follows; when it throws, fn was
\* invoked maxRetries times, every invocation failed and the error thrown is
\* that of the last one (with maxRetries 0 nothing is invoked and undefined is
\* thrown); a delay was taken after every failed attempt but the last of
\* maxRetries.
RetryTerminates ==
    /\ <>RetrySettled
    /\ [](retryState.invocations <= retryState.maxRetries)
    /\ [](retryState.pc = "returned" =>
            /\ retryState.result \in FnResults
            /\ retryState.invocations = Len(retryState.errors) + 1
            /\ retryState.delays = Len(retryState.errors))
    /\ [](retryState.pc = "thrown" =>
            /\ retryState.invocations = retryState.maxRetries
            /\ Len(retryState.errors) = retryState.maxRetries
            /\ retryState.thrown =
                  (IF retryState.errors = <<>> THEN "undefined"
                   ELSE retryState.errors[Len(retryState.errors)])
            /\ retryState.delays = Max(0, retryState.maxRetries - 1))
    /\ [][RetrySettled => retryState' = retryState]_vars

============================================================================
